---- MODULE Spec2Model ----
(***************************************************************************)
(* Verification model of the OctaSine audio core: the MIDI event queue,    *)
(* voice key handling, the sample-generation kernel with its operator      *)
(* dependency analysis, and the patch bank.                                *)
(*                                                                         *)
(* Real numbers are fixed-point integers: UNIT stands for 1.0.             *)
(***************************************************************************)
EXTENDS Integers, Sequences, FiniteSets, TLC

VARIABLES
    pending_midi_events,  \* AudioState::pending_midi_events (front = index 1)
    voices,               \* AudioState::voices, indexed by MIDI pitch 0..127
    panicked,             \* TRUE once an index-out-of-bounds panic has unwound
    rendering,            \* TRUE while a host buffer is being rendered
    buffer_len,           \* frames of the buffer being rendered
    buffer_offset,        \* next sample index of the buffer
    dispatched,           \* history: <<event id, sample index>> per dispatch of this buffer
    at_buffer_start,      \* history: the events pending when the buffer began
    enqueued,             \* history: the batch of the latest enqueue_midi_events call
    next_id,              \* history: events enqueued so far
    parameters,           \* processing parameters (master, operators, lfo)
    rng,                  \* state of the random number generator
    audio_buffer_lefts,   \* the left frames written by the latest kernel batch
    audio_buffer_rights,  \* the right frames written by the latest kernel batch
    summed_additive_outputs, \* history: the accumulator before the hard limit
    changes,              \* parameter changes made so far
    batches,              \* kernel batches run so far
    visited,              \* history: the voices the latest kernel batch visited
    generated,            \* history: <<voice, operator>> pairs it generated
    patch_bank,           \* the PatchBank
    bank_1,               \* history: the bank as it was at the latest export
    bank_2,               \* the fresh bank that imported the latest export
    ops,                  \* patch bank operations so far
    called,               \* history: the latest operation, if it was an import or a
                          \* set from text: what it was given and what it returned
    analysis,             \* history: the latest run_operator_dependency_analysis call:
                          \* its arguments, the flags after each loop, what it returned
    select,               \* process_f32_runtime_select: its buffers and its position
    sync,                 \* the parameter values and changed bits shared by the
                          \* host's control thread and the audio thread, with
                          \* each thread's position in its call
    flag_sync,            \* the thread that changes patches and the calls of
                          \* the GUI and the host that look at the patch bank
    pan_batch,            \* the panning parameter of an operator over the batches
                          \* of a buffer, with what each voice gathered and used
    lfo_call,             \* a processing parameter and the latest call of its
                          \* get_value_with_lfo_addition
    mod_target            \* a ModTargetStorage<N>; history: the latest set_index
                          \* call, the storage that was looked up last and where
                          \* the table of permutations holds it

midi_vars == <<pending_midi_events, panicked, rendering, buffer_len,
               buffer_offset, dispatched, at_buffer_start, enqueued, next_id>>

gen_vars == <<parameters, rng, audio_buffer_lefts, audio_buffer_rights,
              summed_additive_outputs, changes, batches, visited, generated>>

bank_vars == <<patch_bank, bank_1, bank_2, ops, called>>

fn_vars == <<analysis, select>>

thread_vars == <<sync, flag_sync>>
aux_vars == <<mod_target, lfo_call, thread_vars, pan_batch>>

vars == <<midi_vars, voices, gen_vars, bank_vars, fn_vars, aux_vars>>

----------------------------------------------------------------------------
(* Bounds of the model *)

MaxEvents == 2     \* events enqueued over a run
MaxBatch == 2      \* events per enqueue_midi_events call
MaxFrames == 2     \* frames of a host buffer
MaxChanges == 1    \* parameter changes over a run
MaxBatches == 2    \* kernel batches over a run
MaxOps == 2        \* patch bank operations over a run
MaxVoices == 2         \* voices a batch gathers the panning for
MaxCalls == 2          \* calls of have_patches_changed over a run
MaxWrites == 3         \* calls of set_parameter_from_host
MaxSamples == 7        \* frames of a host buffer handed to process_f32_runtime_select
NumParameters == 2 \* parameters of a patch
MaxDuration == 2   \* samples after which the key-on duration stops counting

(* Program constants *)

NUM_VOICES == 128

\* usize is 64 bits wide; 2^64 is beyond TLC's integers. A negative i32 cast
\* to usize lands above every buffer length, which is all the model needs.
USIZE_WRAP == 2^30

----------------------------------------------------------------------------
(* Voices *)

Stages == {"Attack", "Decay", "Sustain", "Release", "Ended", "Restart"}

\* Voice::new: inactive, key up, envelopes ended
NewVoice ==
    [active |-> FALSE, key_pressed |-> FALSE, key_velocity |-> 0,
     duration |-> 0,
     envelopes |-> [o \in 0..3 |->
                      [stage |-> "Ended", elapsed |-> 0, anchor |-> 0, value |-> 0]],
     last_phase |-> [o \in 0..3 |-> 0],
     lfo_phase |-> 0]

\* KeyVelocity::from_midi_velocity: velocity / 127 clamped to [0, 1],
\* kept in 1/127ths
FromMidiVelocity(velocity) == IF velocity > 127 THEN 127 ELSE velocity

\* VoiceOperatorVolumeEnvelope::restart
RestartEnvelope(env) ==
    IF env.stage = "Ended"
    THEN [stage |-> "Attack", elapsed |-> 0, anchor |-> 0, value |-> 0]
    ELSE [stage |-> "Restart", elapsed |-> 0, anchor |-> env.value, value |-> env.value]

\* Voice::press_key
press_key(voice, velocity) ==
    [voice EXCEPT !.key_velocity = FromMidiVelocity(velocity),
                  !.key_pressed = TRUE,
                  !.duration = 0,
                  !.envelopes = [o \in 0..3 |-> RestartEnvelope(voice.envelopes[o])],
                  !.lfo_phase = 0,
                  !.active = TRUE]

\* Voice::release_key
release_key(voice) == [voice EXCEPT !.key_pressed = FALSE]

----------------------------------------------------------------------------
(* AudioState: MIDI event decoding *)

\* self.voices[pitch as usize]: indexing [Voice; 128] panics out of bounds
key_on(vs, pitch, velocity) ==
    IF pitch >= NUM_VOICES
    THEN [voices |-> vs, panicked |-> TRUE]
    ELSE [voices |-> [vs EXCEPT ![pitch] = press_key(@, velocity)], panicked |-> FALSE]

\* a variant that frees the slot at once
key_off_deactivating(vs, pitch) ==
    IF pitch >= NUM_VOICES
    THEN [voices |-> vs, panicked |-> TRUE]
    ELSE [voices |-> [vs EXCEPT ![pitch] = [release_key(@) EXCEPT !.active = FALSE]],
          panicked |-> FALSE]

key_off(vs, pitch) ==
    IF pitch >= NUM_VOICES
    THEN [voices |-> vs, panicked |-> TRUE]
    ELSE [voices |-> [vs EXCEPT ![pitch] = release_key(@)], panicked |-> FALSE]

\* event.data[0] >>= 4 on a u8
StatusNibble(data) == data[1] \div 16

\* mutant: the status byte is matched without the shift, so only channel 1
\* is decoded
process_midi_event_unshifted(vs, data) ==
    LET status == data[1]
        pitch == data[2]
        velocity == data[3]
    IN  CASE status = 128 -> key_off(vs, pitch)
          [] status = 144 /\ velocity = 0 -> key_off(vs, pitch)
          [] status = 144 -> key_on(vs, pitch, velocity)
          [] OTHER -> [voices |-> vs, panicked |-> FALSE]

process_midi_event(vs, data) ==
    LET status == StatusNibble(data)
        pitch == data[2]
        velocity == data[3]
    IN  CASE status = 8 -> key_off(vs, pitch)
          [] status = 9 /\ velocity = 0 -> key_off(vs, pitch)
          [] status = 9 -> key_on(vs, pitch, velocity)
          [] OTHER -> [voices |-> vs, panicked |-> FALSE]

----------------------------------------------------------------------------
(* AudioState: the pending event queue *)

\* a variant that puts an element in front of the elements of equal key
RECURSIVE InsertByKey_before_equal(_, _)
InsertByKey_before_equal(sorted, e) ==
    IF sorted = <<>> THEN <<e>>
    ELSE IF Head(sorted).delta_frames < e.delta_frames
         THEN <<Head(sorted)>> \o InsertByKey_before_equal(Tail(sorted), e)
         ELSE <<e>> \o sorted

\* slice::sort_by_key is a stable sort: an element goes behind every element
\* whose key is not greater
RECURSIVE InsertByKey(_, _)
InsertByKey(sorted, e) ==
    IF sorted = <<>> THEN <<e>>
    ELSE IF Head(sorted).delta_frames <= e.delta_frames
         THEN <<Head(sorted)>> \o InsertByKey(Tail(sorted), e)
         ELSE <<e>> \o sorted

RECURSIVE SortByKeyFrom(_, _)
SortByKeyFrom(sorted, rest) ==
    IF rest = <<>> THEN sorted
    ELSE SortByKeyFrom(InsertByKey(sorted, Head(rest)), Tail(rest))

\* mutant: the queue is left in arrival order
sort_by_key_skipped(s) == s

sort_by_key(s) == SortByKeyFrom(<<>>, s)

\* push_back every event, then sort the whole queue
enqueue_midi_events(queue, events) == sort_by_key(queue \o events)

\* e.delta_frames as usize (delta_frames is an i32)
AsUsize(d) == IF d < 0 THEN USIZE_WRAP + d ELSE d

\* the loop of process_events_for_sample, on
\* [queue, voices, panicked, log]
RECURSIVE process_events_for_sample(_, _)
process_events_for_sample(st, offset) ==
    IF st.panicked \/ st.queue = <<>> THEN st
    ELSE IF AsUsize(Head(st.queue).delta_frames) = offset
         THEN LET event == Head(st.queue)
                  r == process_midi_event(st.voices, event.data)
              IN  process_events_for_sample(
                      [queue |-> Tail(st.queue),
                       voices |-> r.voices,
                       panicked |-> r.panicked,
                       log |-> Append(st.log, <<event.id, offset>>)],
                      offset)
         ELSE st

----------------------------------------------------------------------------
(* Fixed-point arithmetic *)

UNIT == 8                      \* 1.0
Mul(a, b) == (a * b) \div UNIT
Min2(a, b) == IF a < b THEN a ELSE b
Max2(a, b) == IF a > b THEN a ELSE b

\* 2.0f64.powf(x) for x a whole number of units
Pow2(x) == IF x >= 0 THEN UNIT * 2^(x \div UNIT) ELSE UNIT \div 2^((0 - x) \div UNIT)

\* a function as an explicit table, each entry evaluated once
Table(f) == f @@ <<>>

\* Option<f64>: <<>> is None, <<x>> is Some(x)
None == <<>>
Some(x) == <<x>>

----------------------------------------------------------------------------
(* Constants of the generation kernel *)

ZERO_VALUE_LIMIT == 1          \* the smallest positive fixed-point value
VOICE_VOLUME_FACTOR == 4       \* 0.5
HARD_LIMIT == 5 * UNIT         \* out.min(5.0).max(-5.0)

\* The three kernels: frames per batch and lanes per vector
FallbackStd == [SAMPLES |-> 1, PD_WIDTH |-> 2]
Sse2 == [SAMPLES |-> 2, PD_WIDTH |-> 2]
Avx == [SAMPLES |-> 4, PD_WIDTH |-> 4]
Kernels == {FallbackStd, Sse2, Avx}

Lanes(S) == 0..(S.SAMPLES * 2 - 1)
ZeroLanes(S) == Table([j \in Lanes(S) |-> 0])

\* Envelope parameters, in samples; the release of operators 2 and 4 is longer
ATTACK_LEN == 2
DECAY_LEN == 1
SUSTAIN_VOLUME == 4
RESTART_LEN == 1
ReleaseLen(op) == 1 + (op % 2)

\* Quarter turns an operator's phase advances per sample
PHASE_STEP == 1
LFO_STEPS == 4

----------------------------------------------------------------------------
(* Processing parameters *)

\* OperatorPanningProcessingParameter::calculate_left_and_right:
\* [cos(p * pi/2), sin(p * pi/2)], on the panning values 0, 0.5 and 1
calculate_left_and_right(panning) ==
    IF panning <= 0 THEN <<UNIT, 0>>
    ELSE IF panning >= UNIT THEN <<0, UNIT>>
    ELSE <<6, 6>>

NewOperator(index) ==
    [volume |-> UNIT,
     additive_factor |-> IF index = 0 THEN UNIT ELSE 0,
     modulation_index |-> UNIT,
     feedback |-> 0,
     panning |-> [value |-> UNIT \div 2,
                  left_and_right |-> calculate_left_and_right(UNIT \div 2),
                  lfo_active |-> FALSE],
     wave_type |-> "Sine",
     output_operator |-> IF index = 0 THEN 0 ELSE index - 1]

DefaultParameters ==
    [master_volume |-> UNIT,
     operators |-> [index \in 0..3 |-> NewOperator(index)],
     lfo |-> [target |-> <<"None">>, amount |-> UNIT]]

\* The LFO targets the model covers
LfoTargets == {<<"None">>, <<"MasterVolume">>, <<"Volume", 0>>, <<"Panning", 0>>}

\* get_lfo_target_values: the voice's LFO moves on by the batch's time and
\* its shape (a triangle through 0, 1, 0, -1) scaled by the amount is the
\* addition for the LFO's target
AdvanceLfo(lfo_phase, S) == (lfo_phase + S.SAMPLES) % LFO_STEPS

LfoShape(phase) == CASE phase = 1 -> UNIT [] phase = 3 -> 0 - UNIT [] OTHER -> 0

LfoValue(params, lfo_phase, target) ==
    IF params.lfo.target = target
    THEN Some(Mul(params.lfo.amount, LfoShape(lfo_phase)))
    ELSE None

\* get_value_with_lfo_addition of the master volume and of an operator volume
VolumeWithLfoAddition(value, lfo_addition) ==
    IF lfo_addition # None THEN Mul(value, Pow2(lfo_addition[1])) ELSE value

\* OperatorPanningProcessingParameter::get_value_with_lfo_addition: the
\* panning, and the parameter with the gains it stores
PanningWithLfoAddition(panning, lfo_addition) ==
    IF lfo_addition # None
    THEN LET sync_value == panning.value
             new_panning == Max2(Min2(sync_value + lfo_addition[1], UNIT), 0)
         IN  [value |-> new_panning,
              parameter |-> [panning EXCEPT
                                !.left_and_right = calculate_left_and_right(new_panning),
                                !.lfo_active = TRUE]]
    ELSE [value |-> panning.value, parameter |-> panning]

----------------------------------------------------------------------------
(* Envelopes *)

Emit(env, v, step) ==
    [env |-> [env EXCEPT !.elapsed = @ + step, !.value = v], volume |-> v]

EnterStage(stage, anchor) ==
    [stage |-> stage, elapsed |-> 0, anchor |-> anchor, value |-> anchor]

\* VoiceOperatorVolumeEnvelope::get_volume: the amplitude at this sample and
\* the envelope after it
RECURSIVE get_volume(_, _, _)
get_volume(env, key_pressed, op) ==
    IF env.stage = "Ended" THEN [env |-> env, volume |-> 0]
    ELSE IF ~key_pressed /\ env.stage # "Release"
    THEN get_volume(EnterStage("Release", env.value), key_pressed, op)
    ELSE CASE env.stage = "Restart" ->
                IF env.elapsed >= RESTART_LEN
                THEN get_volume(EnterStage("Attack", env.value), key_pressed, op)
                ELSE Emit(env, env.anchor, 1)
           [] env.stage = "Attack" ->
                IF env.elapsed >= ATTACK_LEN
                THEN get_volume(EnterStage("Decay", UNIT), key_pressed, op)
                ELSE Emit(env, env.anchor
                               + ((UNIT - env.anchor) * env.elapsed) \div ATTACK_LEN, 1)
           [] env.stage = "Decay" ->
                IF env.elapsed >= DECAY_LEN
                THEN get_volume(EnterStage("Sustain", SUSTAIN_VOLUME), key_pressed, op)
                ELSE Emit(env, UNIT - ((UNIT - SUSTAIN_VOLUME) * env.elapsed) \div DECAY_LEN, 1)
           [] env.stage = "Sustain" -> Emit(env, SUSTAIN_VOLUME, 0)
           [] OTHER ->
                IF env.elapsed >= ReleaseLen(op)
                THEN [env |-> EnterStage("Ended", 0), volume |-> 0]
                ELSE Emit(env, env.anchor - (env.anchor * env.elapsed) \div ReleaseLen(op), 1)

\* Voice::deactivate_if_envelopes_ended
deactivate_if_envelopes_ended(voice) ==
    IF \A o \in 0..3 : voice.envelopes[o].stage = "Ended"
    THEN [voice EXCEPT !.active = FALSE]
    ELSE voice

----------------------------------------------------------------------------
(* Operator dependency analysis *)

\* one visit of an operator in the three-pass loop
\* a variant that does not look at the wave type of the modulation target
AnalysisStep_any_wave(generate, operator_index, additive_zero, modulation_index_zero, wave_type, targets) ==
    LET modulation_target == targets[operator_index]
        skip_condition ==
            \/ ~generate[operator_index]
            \/ /\ additive_zero[operator_index]
               /\ \/ ~generate[modulation_target]
                  \/ modulation_index_zero[modulation_target]
    IN  IF skip_condition THEN [generate EXCEPT ![operator_index] = FALSE] ELSE generate

AnalysisStep(generate, operator_index, additive_zero, modulation_index_zero, wave_type, targets) ==
    LET modulation_target == targets[operator_index]
        skip_condition ==
            \/ ~generate[operator_index]
            \/ /\ additive_zero[operator_index]
               /\ \/ ~generate[modulation_target]
                  \/ wave_type[modulation_target] = "WhiteNoise"
                  \/ modulation_index_zero[modulation_target]
    IN  IF skip_condition THEN [generate EXCEPT ![operator_index] = FALSE] ELSE generate

AnalysisPass(generate, additive_zero, modulation_index_zero, wave_type, targets) ==
    LET g1 == AnalysisStep(generate, 1, additive_zero, modulation_index_zero, wave_type, targets)
        g2 == AnalysisStep(g1, 2, additive_zero, modulation_index_zero, wave_type, targets)
    IN  AnalysisStep(g2, 3, additive_zero, modulation_index_zero, wave_type, targets)

\* a variant that finds no operator's volume off
VolumeOff_never(operator_volume) == [o \in 0..3 |-> FALSE]

\* the first loop: operators whose volume is off are not generated; the
\* additive and modulation-index flags are set only for the others
VolumeOff(operator_volume) == [o \in 0..3 |-> operator_volume[o] < ZERO_VALUE_LIMIT]

\* a variant that makes one pass
AnalysisPasses_once(generate, additive_zero, modulation_index_zero, wave_type, targets) ==
    AnalysisPass(generate, additive_zero, modulation_index_zero, wave_type, targets)

AnalysisPasses(generate, additive_zero, modulation_index_zero, wave_type, targets) ==
    AnalysisPass(
        AnalysisPass(
            AnalysisPass(generate, additive_zero, modulation_index_zero, wave_type, targets),
            additive_zero, modulation_index_zero, wave_type, targets),
        additive_zero, modulation_index_zero, wave_type, targets)

run_operator_dependency_analysis(operator_volume, operator_additive, operator_modulation_index, operator_wave_type, operator_modulation_targets) ==
    AnalysisPasses(
        [o \in 0..3 |-> ~VolumeOff(operator_volume)[o]],
        [o \in 0..3 |->
            ~VolumeOff(operator_volume)[o] /\ operator_additive[o] < ZERO_VALUE_LIMIT],
        [o \in 0..3 |->
            ~VolumeOff(operator_volume)[o] /\ operator_modulation_index[o] < ZERO_VALUE_LIMIT],
        operator_wave_type, operator_modulation_targets)

----------------------------------------------------------------------------
(* The sample-generation kernel *)

\* S::pd_fast_sin, on an argument in units of a quarter turn
FastSin(x) ==
    LET q == (x \div UNIT) % 4
    IN  CASE q = 1 -> UNIT [] q = 3 -> 0 - UNIT [] OTHER -> 0

\* rng.f64(): a value in [0, 1), and the generator's next state
RNG_PERIOD == 4
RngF64(r) == CASE r = 0 -> 0 [] r = 1 -> 6 [] r = 2 -> 2 [] OTHER -> 4
NextRng(r) == (r + 1) % RNG_PERIOD

\* S::pd_first_over_zero_limit: the vector's first lane alone decides
pd_first_over_zero_limit(first_lane) == first_lane > ZERO_VALUE_LIMIT

\* S::pd_distribute_left_right: l on the even lanes, r on the odd ones
pd_distribute_left_right(l, r, j) == IF j % 2 = 0 THEN l ELSE r

\* the lane a vector starts at, and the left lane of a lane's frame
VectorStart(j, S) == (j \div S.PD_WIDTH) * S.PD_WIDTH
FrameStart(j) == (j \div 2) * 2

\* a variant without the limit
HardLimit_absent(out) == out

\* out.min(5.0).max(-5.0)
HardLimit(out) == Max2(Min2(out, HARD_LIMIT), 0 - HARD_LIMIT)

\* The per-voice values gathered at the start of a batch, and the parameters
\* after gathering them (gathering a panning with an LFO addition stores gains)
GatherVoice(params, lfo_phase) ==
    LET pan == Table([index \in 0..3 |->
                   PanningWithLfoAddition(params.operators[index].panning,
                                          LfoValue(params, lfo_phase, <<"Panning", index>>))])
    IN  [operator_volume |-> Table([index \in 0..3 |->
             VolumeWithLfoAddition(params.operators[index].volume,
                                   LfoValue(params, lfo_phase, <<"Volume", index>>))]),
         operator_modulation_index |->
             [index \in 0..3 |-> params.operators[index].modulation_index],
         operator_feedback |-> [index \in 0..3 |-> params.operators[index].feedback],
         operator_panning |-> Table([index \in 0..3 |-> pan[index].value]),
         operator_additive |-> [index \in 0..3 |->
             IF index = 0 THEN UNIT ELSE params.operators[index].additive_factor],
         operator_wave_type |-> [index \in 0..3 |-> params.operators[index].wave_type],
         operator_modulation_targets |->
             [index \in 0..3 |-> params.operators[index].output_operator],
         master_volume |->
             VolumeWithLfoAddition(params.master_volume,
                                   LfoValue(params, lfo_phase, <<"MasterVolume">>)),
         parameters |-> [params EXCEPT !.operators =
             [index \in 0..3 |-> [@[index] EXCEPT !.panning = pan[index].parameter]]]]

\* the envelope loop for one operator: S::SAMPLES evaluations
RECURSIVE EnvelopeRun(_, _, _, _)
EnvelopeRun(env, key_pressed, op, n) ==
    IF n = 0 THEN [env |-> env, volumes |-> <<>>]
    ELSE LET r == get_volume(env, key_pressed, op)
             rest == EnvelopeRun(r.env, key_pressed, op, n - 1)
         IN  [env |-> rest.env, volumes |-> <<r.volume>> \o rest.volumes]

\* the random numbers of a white-noise operator, one per frame
RECURSIVE RandomRun(_, _)
RandomRun(r, n) ==
    IF n = 0 THEN [rng |-> r, numbers |-> <<>>]
    ELSE LET rest == RandomRun(NextRng(r), n - 1)
         IN  [rng |-> rest.rng, numbers |-> <<(RngF64(r) - UNIT \div 2) * 2>> \o rest.numbers]

\* what one lane of an operator puts out, split into its additive and its
\* modulation part
SplitSample(sample, volume_product, panning_gain, additive) ==
    LET sample_adjusted == Mul(Mul(sample, volume_product), panning_gain)
        additive_out == Mul(sample_adjusted, additive)
    IN  [additive_out |-> additive_out, modulation_out |-> sample_adjusted - additive_out]

Silent == [additive_out |-> 0, modulation_out |-> 0]

NoiseLane(j, op, g, gains, envelope_volumes, random_numbers) ==
    SplitSample(random_numbers[(j \div 2) + 1],
                Mul(g.operator_volume[op], envelope_volumes[op][(j \div 2) + 1]),
                pd_distribute_left_right(gains[1], gains[2], j),
                g.operator_additive[op])

SineLane(j, op, g, gains, envelope_volumes, phases, inputs, S) ==
    LET volume_product == Mul(g.operator_volume[op], envelope_volumes[op][(j \div 2) + 1])
        first == VectorStart(j, S)
        first_product == Mul(g.operator_volume[op], envelope_volumes[op][(first \div 2) + 1])
        pan_transformed == 2 * (g.operator_panning[op] - UNIT \div 2)
        tendency == pd_distribute_left_right(Max2(0 - pan_transformed, 0),
                                             Max2(pan_transformed, 0), j)
        phase == phases[op][(j \div 2) + 1] * UNIT
        channel_sum == inputs[FrameStart(j)] + inputs[FrameStart(j) + 1]
        modulation_in == Mul(tendency, channel_sum) + Mul(UNIT - tendency, inputs[j])
        feedback == Mul(g.operator_feedback[op], FastSin(phase))
        sin_input == Mul(g.operator_modulation_index[op], feedback + modulation_in) + phase
    IN  IF ~pd_first_over_zero_limit(first_product) THEN Silent
        ELSE SplitSample(FastSin(sin_input), volume_product,
                         pd_distribute_left_right(gains[1], gains[2], j),
                         g.operator_additive[op])

\* An operator's lanes added to the accumulator and to the modulation inputs
\* of its target, on [summed, inputs, rng, generated, read]; read is history:
\* the operator's own modulation input as it was when the operator was
\* processed
AddOperatorOutput(acc, op, target, out, rng_after, factor, S) ==
    [summed |-> Table([j \in Lanes(S) |->
                    acc.summed[j] + Mul(out[j].additive_out, factor)]),
     inputs |-> [acc.inputs EXCEPT ![target] =
                    Table([j \in Lanes(S) |-> @[j] + out[j].modulation_out])],
     rng |-> rng_after,
     generated |-> acc.generated \cup {op},
     read |-> [acc.read EXCEPT ![op] = acc.inputs[op]]]

NoiseOperator(acc, op, g, envelope_volumes, factor, random, S) ==
    AddOperatorOutput(
        acc, op, g.operator_modulation_targets[op],
        Table([j \in Lanes(S) |->
            NoiseLane(j, op, g, g.parameters.operators[op].panning.left_and_right,
                      envelope_volumes, random.numbers)]),
        random.rng, factor, S)

SineOperator(acc, op, g, envelope_volumes, phases, factor, S) ==
    AddOperatorOutput(
        acc, op, g.operator_modulation_targets[op],
        Table([j \in Lanes(S) |->
            SineLane(j, op, g, g.parameters.operators[op].panning.left_and_right,
                     envelope_volumes, phases, acc.inputs[op], S)]),
        acc.rng, factor, S)

\* One operator of one voice
ProcessOperator(acc, op, g, generate, envelope_volumes, phases, factor, S) ==
    IF ~generate[op] THEN acc
    ELSE IF g.operator_wave_type[op] = "WhiteNoise"
    THEN NoiseOperator(acc, op, g, envelope_volumes, factor,
                       RandomRun(acc.rng, S.SAMPLES), S)
    ELSE SineOperator(acc, op, g, envelope_volumes, phases, factor, S)

\* a variant that goes through the operators upwards, starting with operator 1
ProcessOperators_upwards(acc, g, generate, envelope_volumes, phases, factor, S) ==
    ProcessOperator(
        ProcessOperator(
            ProcessOperator(
                ProcessOperator(acc, 0, g, generate, envelope_volumes, phases, factor, S),
                1, g, generate, envelope_volumes, phases, factor, S),
            2, g, generate, envelope_volumes, phases, factor, S),
        3, g, generate, envelope_volumes, phases, factor, S)

\* the operators in descending order, starting with operator 4
ProcessOperators(acc, g, generate, envelope_volumes, phases, factor, S) ==
    ProcessOperator(
        ProcessOperator(
            ProcessOperator(
                ProcessOperator(acc, 3, g, generate, envelope_volumes, phases, factor, S),
                2, g, generate, envelope_volumes, phases, factor, S),
            1, g, generate, envelope_volumes, phases, factor, S),
        0, g, generate, envelope_volumes, phases, factor, S)

\* The end of a voice's turn: the loop state [summed, parameters, rng, voices,
\* generated] with the operators' additions and the voice moved on by the
\* batch and deactivated if its envelopes have ended
VoiceGenerated(loop, pitch, voice, g, runs, acc, S) ==
    [summed |-> acc.summed,
     parameters |-> g.parameters,
     rng |-> acc.rng,
     voices |-> [loop.voices EXCEPT ![pitch] =
         deactivate_if_envelopes_ended(
             [voice EXCEPT
                 !.lfo_phase = AdvanceLfo(voice.lfo_phase, S),
                 !.envelopes = Table([o \in 0..3 |-> runs[o].env]),
                 !.duration = Min2(voice.duration + S.SAMPLES, MaxDuration),
                 !.last_phase = [o \in 0..3 |->
                     (voice.last_phase[o] + PHASE_STEP * S.SAMPLES) % 4]])],
     generated |-> loop.generated \cup {<<pitch, op>> : op \in acc.generated}]

\* envelope volumes, phases, volume factor, dependency analysis and operators
VoiceEnvelopes(loop, pitch, voice, g, runs, S) ==
    VoiceGenerated(
        loop, pitch, voice, g, runs,
        ProcessOperators(
            [summed |-> loop.summed,
             inputs |-> Table([o \in 0..3 |-> ZeroLanes(S)]),
             rng |-> loop.rng,
             generated |-> {},
             read |-> [o \in 0..3 |-> <<>>]],
            g,
            run_operator_dependency_analysis(
                g.operator_volume, g.operator_additive, g.operator_modulation_index,
                g.operator_wave_type, g.operator_modulation_targets),
            Table([o \in 0..3 |-> runs[o].volumes]),
            Table([o \in 0..3 |->
                Table([i \in 1..S.SAMPLES |-> voice.last_phase[o] + PHASE_STEP * i])]),
            (Mul(VOICE_VOLUME_FACTOR, g.master_volume) * voice.key_velocity) \div 127,
            S),
        S)

VoiceGathered(loop, pitch, voice, g, S) ==
    VoiceEnvelopes(
        loop, pitch, voice, g,
        Table([o \in 0..3 |->
            EnvelopeRun(voice.envelopes[o], voice.key_pressed, o, S.SAMPLES)]),
        S)

\* One visited voice of a batch
ProcessVoice(loop, pitch, S) ==
    VoiceGathered(loop, pitch, loop.voices[pitch],
                  GatherVoice(loop.parameters, loop.voices[pitch].lfo_phase), S)

\* a variant that also visits voices that played before
Visited_or_played(voice) == voice.active \/ voice.duration > 0

\* .filter(|voice| voice.active)
Visited(voice) == voice.active

Filtered(vs) == {p \in 0..(NUM_VOICES - 1) : Visited(vs[p])}

Lowest(pitches) == CHOOSE p \in pitches : \A q \in pitches : p <= q

\* the voice loop: the voices that pass the filter, in slot order
RECURSIVE ProcessVoices(_, _, _)
ProcessVoices(loop, remaining, S) ==
    IF remaining = {} THEN loop
    ELSE ProcessVoices(ProcessVoice(loop, Lowest(remaining), S),
                       remaining \ {Lowest(remaining)}, S)

\* the hard limit and the write to the audio buffers
WriteOut(done, filtered, S) ==
    [voices |-> done.voices,
     parameters |-> done.parameters,
     rng |-> done.rng,
     visited |-> filtered,
     generated |-> done.generated,
     summed |-> [i \in 1..S.SAMPLES * 2 |-> done.summed[i - 1]],
     lefts |-> [i \in 1..S.SAMPLES |-> HardLimit(done.summed[(i - 1) * 2])],
     rights |-> [i \in 1..S.SAMPLES |-> HardLimit(done.summed[(i - 1) * 2 + 1])]]

\* process: one batch of S::SAMPLES frames
process(params, r, vs, S) ==
    WriteOut(ProcessVoices([summed |-> ZeroLanes(S), parameters |-> params, rng |-> r,
                            voices |-> vs, generated |-> {}],
                           Filtered(vs), S),
             Filtered(vs), S)

GenInit ==
    /\ parameters = DefaultParameters
    /\ rng = 0
    /\ audio_buffer_lefts = <<>>
    /\ audio_buffer_rights = <<>>
    /\ summed_additive_outputs = <<>>
    /\ changes = 0
    /\ batches = 0
    /\ visited = {}
    /\ generated = {}

----------------------------------------------------------------------------
(* The patch bank *)

NUM_PATCHES == 128

\* f32 parameter values count quarters: F32_ONE is 1.0
F32_ONE == 4

\* c.is_ascii()
ASCII_MAX == 127

\* Patch names are sequences of character codes
DASH == 45
DIGIT_ZERO == 48

\* Patch::process_name: the ASCII characters of the name
is_ascii(c) == c <= ASCII_MAX
process_name(name) == SelectSeq(name, is_ascii)

\* PatchParameter::all(): the parameters of a patch at their default values
PatchParameter_all == [i \in 1..NumParameters |-> i % (F32_ONE + 1)]

\* Patch::new
Patch_new(name, patch_parameters) ==
    [name |-> process_name(name), parameters |-> patch_parameters]

\* Patch::default
Patch_default == Patch_new(<<DASH>>, PatchParameter_all)

\* Patch::set_name
set_name(patch, name) == [patch EXCEPT !.name = process_name(name)]

\* SerdePatchParameterValue: the value written as decimal text, in
\* hundredths, and read back
from_f32(value) ==
    <<(value * 25) \div 100, ((value * 25) \div 10) % 10, (value * 25) % 10>>

as_f32(value_float) ==
    (value_float[1] * 100 + value_float[2] * 10 + value_float[3]) \div 25

\* SerdePatch::new
SerdePatch_new(patch) ==
    [name |-> patch.name,
     parameters |-> [i \in 1..Len(patch.parameters) |->
                        [value_float |-> from_f32(patch.parameters[i])]]]

\* a variant that reads each parameter from the position after its own
import_serde_preset_shifted(patch, serde_preset) ==
    [name |-> process_name(serde_preset.name),
     parameters |-> [i \in 1..Len(patch.parameters) |->
         IF i + 1 <= Len(serde_preset.parameters)
         THEN as_f32(serde_preset.parameters[i + 1].value_float)
         ELSE patch.parameters[i]]]

\* Patch::import_serde_preset (parameter index + 1 is the position here)
import_serde_preset(patch, serde_preset) ==
    [name |-> process_name(serde_preset.name),
     parameters |-> [i \in 1..Len(patch.parameters) |->
         IF i <= Len(serde_preset.parameters)
         THEN as_f32(serde_preset.parameters[i].value_float)
         ELSE patch.parameters[i]]]

\* Patch::export_serde_preset
export_serde_preset(patch) == SerdePatch_new(patch)

\* Patch::set_from_patch_parameters
set_from_patch_parameters(patch, patch_parameters) ==
    [name |-> process_name(<<DASH>>),
     parameters |-> [i \in 1..Len(patch.parameters) |->
         IF i <= Len(patch_parameters) THEN patch_parameters[i] ELSE patch.parameters[i]]]

\* ParameterChangeInfo::mark_all_as_changed
AllParameterIndices == 0..(NumParameters - 1)

\* PatchBank::new
PatchBank_new ==
    [patches |-> [p \in 0..(NUM_PATCHES - 1) |-> Patch_default],
     patch_index |-> 0,
     parameter_change_info_audio |-> {},
     parameter_change_info_gui |-> {},
     patches_changed |-> FALSE]

\* PatchBank::get_current_patch
get_current_patch(bank) == bank.patches[bank.patch_index]

\* PatchBank::num_patches and num_parameters
num_patches(bank) == Cardinality(DOMAIN bank.patches)
num_parameters(bank) == Len(get_current_patch(bank).parameters)

\* PatchBank::mark_parameters_as_changed
mark_parameters_as_changed(bank) ==
    [bank EXCEPT !.parameter_change_info_audio = AllParameterIndices,
                 !.parameter_change_info_gui = AllParameterIndices]

\* self.patches_changed.store(true, Ordering::SeqCst)
StorePatchesChanged(bank) == [bank EXCEPT !.patches_changed = TRUE]

\* a variant without the bounds check
set_patch_index_unguarded(bank, index) ==
    mark_parameters_as_changed(StorePatchesChanged([bank EXCEPT !.patch_index = index]))

\* PatchBank::set_patch_index
set_patch_index(bank, index) ==
    IF index >= num_patches(bank) THEN bank
    ELSE mark_parameters_as_changed(StorePatchesChanged([bank EXCEPT !.patch_index = index]))

\* PatchBank::set_patch_name
set_patch_name(bank, name) ==
    StorePatchesChanged([bank EXCEPT !.patches[bank.patch_index] = set_name(@, name)])

\* a variant that marks the parameter for the GUI as well
set_parameter_from_gui_marks_gui(bank, index, value) ==
    IF index < num_parameters(bank)
    THEN [bank EXCEPT
            !.patches[bank.patch_index].parameters[index + 1] =
                IF value < 0 THEN 0 ELSE IF value > F32_ONE THEN F32_ONE ELSE value,
            !.parameter_change_info_audio = @ \cup {index},
            !.parameter_change_info_gui = @ \cup {index}]
    ELSE bank

\* PatchBank::set_parameter_from_gui
set_parameter_from_gui(bank, index, value) ==
    IF index < num_parameters(bank)
    THEN [bank EXCEPT
            !.patches[bank.patch_index].parameters[index + 1] =
                IF value < 0 THEN 0 ELSE IF value > F32_ONE THEN F32_ONE ELSE value,
            !.parameter_change_info_audio = @ \cup {index}]
    ELSE bank

\* PatchBank::set_parameter_from_host
set_parameter_from_host(bank, index, value) ==
    IF index < num_parameters(bank)
    THEN [bank EXCEPT
            !.patches[bank.patch_index].parameters[index + 1] = value,
            !.parameter_change_info_audio = @ \cup {index},
            !.parameter_change_info_gui = @ \cup {index}]
    ELSE bank

\* format!("{:03}", index + 1)
PatchNumberName(index) ==
    <<DIGIT_ZERO + (((index + 1) \div 100) % 10),
      DIGIT_ZERO + (((index + 1) \div 10) % 10),
      DIGIT_ZERO + ((index + 1) % 10)>>

\* PatchBank::import_bank_from_serde
import_bank_from_serde(bank, serde_bank) ==
    StorePatchesChanged(mark_parameters_as_changed(set_patch_index(
        [bank EXCEPT !.patches = [index \in DOMAIN bank.patches |->
            IF index < Len(serde_bank.patches)
            THEN import_serde_preset(bank.patches[index], serde_bank.patches[index + 1])
            ELSE set_name(import_serde_preset(bank.patches[index],
                                              export_serde_preset(Patch_default)),
                          PatchNumberName(index))]],
        0)))

\* PatchBank::import_patches_from_serde
import_patches_from_serde(bank, serde_patches) ==
    StorePatchesChanged(mark_parameters_as_changed(
        [bank EXCEPT !.patches = [index \in DOMAIN bank.patches |->
            IF index >= bank.patch_index /\ index - bank.patch_index < Len(serde_patches)
            THEN import_serde_preset(bank.patches[index],
                                     serde_patches[index - bank.patch_index + 1])
            ELSE bank.patches[index]]]))

\* PatchBank::clear_current_patch
clear_current_patch(bank) ==
    StorePatchesChanged(mark_parameters_as_changed(
        [bank EXCEPT !.patches[bank.patch_index] =
            set_from_patch_parameters(@, PatchParameter_all)]))

\* PatchBank::clear_bank
clear_bank(bank) ==
    StorePatchesChanged(mark_parameters_as_changed(set_patch_index(
        [bank EXCEPT !.patches = [index \in DOMAIN bank.patches |->
            set_from_patch_parameters(bank.patches[index], PatchParameter_all)]],
        0)))

\* SerdePatchBank::new
SerdePatchBank_new(bank) ==
    [patches |-> [n \in 1..num_patches(bank) |-> export_serde_preset(bank.patches[n - 1])]]

\* to_bytes of a patch: the length of the name, the name, the number of
\* parameters, and three digits for each parameter
PatchBytes(serde_patch) ==
    <<Len(serde_patch.name)>> \o serde_patch.name \o <<Len(serde_patch.parameters)>>
    \o [k \in 1..(3 * Len(serde_patch.parameters)) |->
           serde_patch.parameters[((k - 1) \div 3) + 1].value_float[((k - 1) % 3) + 1]]

\* the bytes of the patches from..to, one after the other
RECURSIVE ConcatBytes(_, _, _)
ConcatBytes(serde_patches, from, to) ==
    IF from > to THEN <<>>
    ELSE IF from = to THEN PatchBytes(serde_patches[from])
    ELSE ConcatBytes(serde_patches, from, (from + to) \div 2)
         \o ConcatBytes(serde_patches, ((from + to) \div 2) + 1, to)

\* SerdePatchBank::to_bytes: the number of patches, then the patches
to_bytes(serde_bank) ==
    <<Len(serde_bank.patches) % 256, Len(serde_bank.patches) \div 256>>
    \o ConcatBytes(serde_bank.patches, 1, Len(serde_bank.patches))

\* one patch read from position pos on: the patch and the position after it
ReadPatch(bytes, pos) ==
    [serde_patch |->
        [name |-> SubSeq(bytes, pos + 1, pos + bytes[pos]),
         parameters |-> [i \in 1..bytes[pos + bytes[pos] + 1] |->
            [value_float |-> SubSeq(bytes, pos + bytes[pos] + 3 * i - 1,
                                    pos + bytes[pos] + 3 * i + 1)]]],
     next |-> pos + bytes[pos] + 2 + 3 * bytes[pos + bytes[pos] + 1]]

\* whether a whole patch lies at position pos
PatchAt(bytes, pos) ==
    /\ pos <= Len(bytes)
    /\ pos + bytes[pos] + 1 <= Len(bytes)
    /\ pos + bytes[pos] + 1 + 3 * bytes[pos + bytes[pos] + 1] <= Len(bytes)

\* n patches read on from the reading so far: [ok, pos, patches]
RECURSIVE ReadPatches(_, _, _)
ReadPatches(bytes, read, n) ==
    IF ~read.ok \/ n = 0 THEN read
    ELSE IF n = 1
    THEN IF PatchAt(bytes, read.pos)
         THEN [ok |-> TRUE,
               pos |-> ReadPatch(bytes, read.pos).next,
               patches |-> Append(read.patches, ReadPatch(bytes, read.pos).serde_patch)]
         ELSE [read EXCEPT !.ok = FALSE]
    ELSE ReadPatches(bytes, ReadPatches(bytes, read, n \div 2), n - (n \div 2))

\* Ok(bank) if the bytes end where the patches end, an error otherwise
ReadResult(bytes, read) ==
    [ok |-> read.ok /\ read.pos = Len(bytes) + 1, value |-> [patches |-> read.patches]]

\* from_bytes::<SerdePatchBank>
from_bytes(bytes) ==
    IF Len(bytes) < 2 THEN [ok |-> FALSE, value |-> [patches |-> <<>>]]
    ELSE ReadResult(bytes, ReadPatches(bytes, [ok |-> TRUE, pos |-> 3, patches |-> <<>>],
                                       bytes[1] + 256 * bytes[2]))

\* a variant that imports whatever was read, error or not
import_bank_from_bytes_unchecked(bank, bytes) ==
    import_bank_from_serde(bank, from_bytes(bytes).value)

\* PatchBank::import_bank_from_bytes
import_bank_from_bytes(bank, bytes) ==
    IF from_bytes(bytes).ok
    THEN import_bank_from_serde(bank, from_bytes(bytes).value)
    ELSE bank

\* PatchBank::export_bank_as_bytes
export_bank_as_bytes(bank) == to_bytes(SerdePatchBank_new(bank))

\* from_bytes::<SerdePatch>
patch_from_bytes(bytes) ==
    IF PatchAt(bytes, 1) /\ ReadPatch(bytes, 1).next = Len(bytes) + 1
    THEN [ok |-> TRUE, value |-> ReadPatch(bytes, 1).serde_patch]
    ELSE [ok |-> FALSE, value |-> [name |-> <<>>, parameters |-> <<>>]]

\* Patch::import_bytes: the patch afterwards and the bool it returns
import_bytes(patch, bytes) ==
    IF patch_from_bytes(bytes).ok
    THEN [patch |-> import_serde_preset(patch, patch_from_bytes(bytes).value), returned |-> TRUE]
    ELSE [patch |-> patch, returned |-> FALSE]

\* PatchBank::import_bytes_into_current_patch
import_bytes_into_current_patch(bank, bytes) ==
    IF import_bytes(get_current_patch(bank), bytes).returned
    THEN StorePatchesChanged(mark_parameters_as_changed(
            [bank EXCEPT !.patches[bank.patch_index] = import_bytes(@, bytes).patch]))
    ELSE bank

\* what import_bank_from_bytes returns
import_bank_from_bytes_returned(bytes) == IF from_bytes(bytes).ok THEN "Ok" ELSE "Err"

\* the text of a parameter value: one decimal digit counting quarters
DIGIT_NINE == 57
value_from_text(text) ==
    IF Len(text) = 1 /\ text[1] >= DIGIT_ZERO /\ text[1] <= DIGIT_NINE
    THEN Some(Min2(text[1] - DIGIT_ZERO, F32_ONE))
    ELSE None

\* a variant that marks the parameter as changed whatever the text
set_parameter_text_from_host_marking(bank, index, text) ==
    IF index < num_parameters(bank)
    THEN [bank |-> [bank EXCEPT
                      !.patches[bank.patch_index].parameters[index + 1] =
                          IF value_from_text(text) # None THEN value_from_text(text)[1] ELSE @,
                      !.parameter_change_info_audio = @ \cup {index},
                      !.parameter_change_info_gui = @ \cup {index}],
          returned |-> value_from_text(text) # None]
    ELSE [bank |-> bank, returned |-> FALSE]

\* PatchBank::set_parameter_text_from_host: the bank afterwards and the
\* bool it returns
set_parameter_text_from_host(bank, index, text) ==
    IF index < num_parameters(bank) /\ value_from_text(text) # None
    THEN [bank |-> [bank EXCEPT
                      !.patches[bank.patch_index].parameters[index + 1] =
                          value_from_text(text)[1],
                      !.parameter_change_info_audio = @ \cup {index},
                      !.parameter_change_info_gui = @ \cup {index}],
          returned |-> TRUE]
    ELSE [bank |-> bank, returned |-> FALSE]

\* no import and no set from text was the latest operation
NoCall == [op |-> "", args |-> <<>>, value |-> ""]

BankInit ==
    /\ patch_bank = PatchBank_new
    /\ bank_1 = PatchBank_new
    /\ bank_2 = PatchBank_new
    /\ ops = 0
    /\ called = NoCall

----------------------------------------------------------------------------
(* Inputs of the MIDI specification *)

\* note-on 60 on channel 1, note-off 60 on channel 4, note-on with a pitch
\* byte beyond the voice array
NOTE_ON_60 == <<144, 60, 100>>
NOTE_OFF_60 == <<131, 60, 0>>
NOTE_ON_200 == <<144, 200, 100>>

MidiData == {NOTE_ON_60, NOTE_OFF_60, NOTE_ON_200}
MidiDeltas == {-1, 0, 1}

EventInputs == [delta_frames : MidiDeltas, data : MidiData]

Batches == UNION {[1..k -> EventInputs] : k \in 1..MaxBatch}

WithIds(batch, first) ==
    [i \in 1..Len(batch) |->
        [id |-> first + i - 1,
         delta_frames |-> batch[i].delta_frames,
         data |-> batch[i].data]]

SeqToSet(s) == {s[i] : i \in 1..Len(s)}

----------------------------------------------------------------------------
(* Actions of the MIDI specification *)

\* no call of the dependency analysis, no buffer being selected for
NoAnalysis == [called |-> FALSE]

NoSelect == [running |-> FALSE]

\* no modulation target at hand
NoModTarget == [N |-> 0]

NoLfoCall == [kind |-> ""]

NoPanBatch == [phase |-> ""]

NoSync == [writes |-> 0]
NoFlagSync == [calls |-> 0]

ThreadInit ==
    /\ sync = NoSync
    /\ flag_sync = NoFlagSync

AuxInit ==
    /\ mod_target = NoModTarget
    /\ lfo_call = NoLfoCall
    /\ ThreadInit
    /\ pan_batch = NoPanBatch

FnInit ==
    /\ analysis = NoAnalysis
    /\ select = NoSelect
    /\ AuxInit

MidiInit ==
    /\ pending_midi_events = <<>>
    /\ panicked = FALSE
    /\ rendering = FALSE
    /\ buffer_len = 0
    /\ buffer_offset = 0
    /\ dispatched = <<>>
    /\ at_buffer_start = {}
    /\ enqueued = <<>>
    /\ next_id = 1

VoicesInit == voices = [p \in 0..(NUM_VOICES - 1) |-> NewVoice]

\* The host hands over the events of the coming buffer
EnqueueMidiEvents(batch) ==
    /\ ~panicked
    /\ ~rendering
    /\ next_id + Len(batch) - 1 <= MaxEvents
    /\ pending_midi_events' =
           enqueue_midi_events(pending_midi_events, WithIds(batch, next_id))
    /\ next_id' = next_id + Len(batch)
    /\ enqueued' = WithIds(batch, next_id)
    /\ UNCHANGED <<voices, panicked, rendering, buffer_len, buffer_offset,
                   dispatched, at_buffer_start>>
    /\ UNCHANGED <<gen_vars, bank_vars, fn_vars, aux_vars>>

\* The host asks for a buffer of n frames
BeginBuffer(n) ==
    /\ ~panicked
    /\ ~rendering
    /\ rendering' = TRUE
    /\ buffer_len' = n
    /\ buffer_offset' = 0
    /\ dispatched' = <<>>
    /\ at_buffer_start' = SeqToSet(pending_midi_events)
    /\ enqueued' = <<>>
    /\ UNCHANGED <<pending_midi_events, voices, panicked, next_id>>
    /\ UNCHANGED <<gen_vars, bank_vars, fn_vars, aux_vars>>

\* One sample index of the buffer: drain the events due at it
ProcessSample ==
    /\ ~panicked
    /\ rendering
    /\ buffer_offset < buffer_len
    /\ LET r == process_events_for_sample(
                    [queue |-> pending_midi_events, voices |-> voices,
                     panicked |-> FALSE, log |-> dispatched],
                    buffer_offset)
       IN  /\ pending_midi_events' = r.queue
           /\ voices' = r.voices
           /\ panicked' = r.panicked
           /\ dispatched' = r.log
    /\ buffer_offset' = buffer_offset + 1
    /\ UNCHANGED <<rendering, buffer_len, at_buffer_start, enqueued, next_id>>
    /\ UNCHANGED <<gen_vars, bank_vars, fn_vars, aux_vars>>

\* The buffer is complete and goes back to the host
EndBuffer ==
    /\ ~panicked
    /\ rendering
    /\ buffer_offset = buffer_len
    /\ rendering' = FALSE
    /\ UNCHANGED <<pending_midi_events, voices, panicked, buffer_len,
                   buffer_offset, dispatched, at_buffer_start, enqueued, next_id>>
    /\ UNCHANGED <<gen_vars, bank_vars, fn_vars, aux_vars>>

MidiNext ==
    \/ \E batch \in Batches : EnqueueMidiEvents(batch)
    \/ \E n \in 1..MaxFrames : BeginBuffer(n)
    \/ ProcessSample
    \/ EndBuffer

Init == MidiInit /\ VoicesInit /\ GenInit /\ BankInit /\ FnInit

Spec == Init /\ [][MidiNext]_vars

----------------------------------------------------------------------------
(* Dispatch of single events: process_midi_event applied to events drawn   *)
(* from the byte ranges, from every voice state such events produce        *)

\* every status nibble on channels 1 and 4
StatusBytes == {n * 16 + c : n \in 0..15, c \in {0, 3}}
PitchBytes == {0, 127, 128, 255}
VelocityBytes == {0, 1, 255}

DispatchData == {<<s, p, v>> : s \in StatusBytes, p \in PitchBytes, v \in VelocityBytes}

Dispatch(data) ==
    /\ ~panicked
    /\ LET r == process_midi_event(voices, data)
       IN  /\ voices' = r.voices
           /\ panicked' = r.panicked
    /\ UNCHANGED <<pending_midi_events, rendering, buffer_len, buffer_offset,
                   dispatched, at_buffer_start, enqueued, next_id>>
    /\ UNCHANGED <<gen_vars, bank_vars, fn_vars, aux_vars>>

DispatchNext == \E data \in DispatchData : Dispatch(data)

SpecDispatch == Init /\ [][DispatchNext]_vars

----------------------------------------------------------------------------
(* The generation specification: keys, parameter changes and kernel batches *)

\* Patches the kernel starts from: the default one, one with every operator
\* volume at zero, and one with every operator loud, additive and panned
\* left, its LFO on the master volume
SilentPatch ==
    [DefaultParameters EXCEPT !.operators =
        [index \in 0..3 |-> [@[index] EXCEPT !.volume = 0]]]

LoudPatch ==
    [DefaultParameters EXCEPT
        !.master_volume = 2 * UNIT,
        !.lfo = [target |-> <<"MasterVolume">>, amount |-> UNIT],
        !.operators = [index \in 0..3 |->
            [@[index] EXCEPT !.volume = 2 * UNIT,
                             !.additive_factor = UNIT,
                             !.panning = [value |-> 0,
                                          left_and_right |-> calculate_left_and_right(0),
                                          lfo_active |-> FALSE]]]]

InitialPatches == {DefaultParameters, SilentPatch, LoudPatch}

GenMidiData == {<<144, 60, 127>>, <<128, 60, 0>>}

\* ProcessingParameter::set_from_sync, per parameter
ParameterChanges ==
    [kind : {"wave_type"}, index : {0}, value : {"WhiteNoise"}]
    \cup [kind : {"lfo_target"}, index : {0}, value : {<<"Panning", 0>>, <<"None">>}]

set_from_sync(params, c) ==
    IF c.kind = "wave_type"
    THEN [params EXCEPT !.operators[c.index].wave_type = c.value]
    ELSE [params EXCEPT !.lfo.target = c.value]

GenPatchInit ==
    /\ parameters \in InitialPatches
    /\ rng = 0
    /\ audio_buffer_lefts = <<>>
    /\ audio_buffer_rights = <<>>
    /\ summed_additive_outputs = <<>>
    /\ changes = 0
    /\ batches = 0
    /\ visited = {}
    /\ generated = {}

SetParameter(c) ==
    /\ changes < MaxChanges
    /\ parameters' = set_from_sync(parameters, c)
    /\ changes' = changes + 1
    /\ UNCHANGED <<midi_vars, voices, rng, audio_buffer_lefts, audio_buffer_rights,
                   summed_additive_outputs, batches, visited, generated, bank_vars, fn_vars, aux_vars>>

Process(S) ==
    /\ ~panicked
    /\ batches < MaxBatches
    /\ batches' = batches + 1
    /\ \E r \in {process(parameters, rng, voices, S)} :
           /\ voices' = r.voices
           /\ parameters' = r.parameters
           /\ rng' = r.rng
           /\ summed_additive_outputs' = r.summed
           /\ audio_buffer_lefts' = r.lefts
           /\ audio_buffer_rights' = r.rights
           /\ visited' = r.visited
           /\ generated' = r.generated
    /\ UNCHANGED <<midi_vars, changes, bank_vars, fn_vars, aux_vars>>

GenNext ==
    \/ \E d \in GenMidiData : Dispatch(d)
    \/ \E c \in ParameterChanges : SetParameter(c)
    \/ \E S \in Kernels : Process(S)

InitGen == MidiInit /\ VoicesInit /\ GenPatchInit /\ BankInit /\ FnInit

SpecGen == InitGen /\ [][GenNext]_vars

----------------------------------------------------------------------------
(* The operator specification: kernel batches of one voice over patches that
   differ in what their operators are and in where they send their output *)

\* an operator that goes to the mix and to its target ("mix"), to its target
\* alone ("modulator", and "noise" with the white-noise wave), that ignores
\* its modulation input ("deaf"), or whose volume is off ("off")
OperatorOf(index, kind, target) ==
    [NewOperator(index) EXCEPT
        !.volume = IF kind = "off" THEN 0 ELSE 2 * UNIT,
        !.additive_factor = IF kind = "mix" THEN UNIT \div 2 ELSE 0,
        !.modulation_index = IF kind = "deaf" THEN 0 ELSE UNIT,
        !.wave_type = IF kind = "noise" THEN "WhiteNoise" ELSE "Sine",
        !.panning = [value |-> 0, left_and_right |-> calculate_left_and_right(0),
                     lfo_active |-> FALSE],
        !.output_operator = target]

\* operator 2 targets operator 1; operator 3 one of 1, 2; operator 4 one of
\* 1, 2, 3
OperatorPatches ==
    {[DefaultParameters EXCEPT
         !.master_volume = 2 * UNIT,
         !.operators = (0 :> OperatorOf(0, k0, 0) @@ 1 :> OperatorOf(1, k1, 0)
                        @@ 2 :> OperatorOf(2, k2, t2) @@ 3 :> OperatorOf(3, k3, t3))] :
        k0 \in {"mix", "noise", "deaf"}, k1 \in {"mix", "modulator", "off"},
        k2 \in {"mix", "modulator"}, k3 \in {"mix", "modulator", "noise", "off"},
        t2 \in 0..1, t3 \in 0..2}

\* key 60 is down and one of the patches is loaded
InitOperators ==
    /\ MidiInit
    /\ voices = key_on([p \in 0..(NUM_VOICES - 1) |-> NewVoice], 60, 127).voices
    /\ parameters \in OperatorPatches
    /\ rng = 0
    /\ audio_buffer_lefts = <<>>
    /\ audio_buffer_rights = <<>>
    /\ summed_additive_outputs = <<>>
    /\ changes = 0
    /\ batches = 0
    /\ visited = {}
    /\ generated = {}
    /\ BankInit
    /\ FnInit

OperatorsNext == \E S \in Kernels : Process(S)

SpecOperators == InitOperators /\ [][OperatorsNext]_vars

----------------------------------------------------------------------------
(* The analysis specification: run_operator_dependency_analysis applied to
   arguments of every shape, modulation targets anywhere in 0..3 *)

\* the flags the first loop leaves beside operator_generate_audio
operator_additive_zero(operator_volume, operator_additive) ==
    [o \in 0..3 |->
        ~VolumeOff(operator_volume)[o] /\ operator_additive[o] < ZERO_VALUE_LIMIT]

operator_modulation_index_zero(operator_volume, operator_modulation_index) ==
    [o \in 0..3 |->
        ~VolumeOff(operator_volume)[o] /\ operator_modulation_index[o] < ZERO_VALUE_LIMIT]

\* operator_generate_audio after the first loop and n passes of the second
RECURSIVE FlagsAfter(_, _, _, _, _, _)
FlagsAfter(operator_volume, operator_additive, operator_modulation_index, operator_wave_type, operator_modulation_targets, n) ==
    IF n = 0
    THEN [o \in 0..3 |-> ~VolumeOff(operator_volume)[o]]
    ELSE AnalysisPass(
             FlagsAfter(operator_volume, operator_additive, operator_modulation_index,
                        operator_wave_type, operator_modulation_targets, n - 1),
             operator_additive_zero(operator_volume, operator_additive),
             operator_modulation_index_zero(operator_volume, operator_modulation_index),
             operator_wave_type, operator_modulation_targets)

\* volume and additive factor of an operator: off (the additive factor of
\* an operator whose volume is off is not looked at), a pure modulator, in
\* the mix; operator 1 is never a pure modulator
AnalysisLevels ==
    {l \in [0..3 -> {<<0, UNIT>>, <<UNIT, 0>>, <<UNIT, UNIT>>}] : l[0] # <<UNIT, 0>>}
AnalysisTargets == {t \in [0..3 -> 0..3] : t[0] = 0}

\* an operator takes its modulation input ("plain"), is white noise ("noise")
\* or has its modulation index off ("deaf"); operator 4 is plain
AnalysisKinds == {k \in [0..3 -> {"plain", "noise", "deaf"}] : k[3] = "plain"}

\* the arguments of a call that is still to be made
InitAnalysis ==
    /\ MidiInit
    /\ VoicesInit
    /\ GenInit
    /\ BankInit
    /\ select = NoSelect
    /\ AuxInit
    /\ \E l \in AnalysisLevels, k \in AnalysisKinds, t \in AnalysisTargets :
            analysis =
                [called |-> FALSE,
                 operator_volume |-> [o \in 0..3 |-> l[o][1]],
                 operator_additive |-> [o \in 0..3 |-> l[o][2]],
                 operator_modulation_index |->
                     [o \in 0..3 |-> IF k[o] = "deaf" THEN 0 ELSE UNIT],
                 operator_wave_type |->
                     [o \in 0..3 |-> IF k[o] = "noise" THEN "WhiteNoise" ELSE "Sine"],
                 operator_modulation_targets |-> t]

Analyse ==
    /\ ~analysis.called
    /\ "operator_volume" \in DOMAIN analysis
    /\ analysis' =
          [called |-> TRUE,
           operator_volume |-> analysis.operator_volume,
           operator_additive |-> analysis.operator_additive,
           operator_modulation_index |-> analysis.operator_modulation_index,
           operator_wave_type |-> analysis.operator_wave_type,
           operator_modulation_targets |-> analysis.operator_modulation_targets,
           passes |-> [n \in 1..4 |->
               FlagsAfter(analysis.operator_volume, analysis.operator_additive,
                          analysis.operator_modulation_index, analysis.operator_wave_type,
                          analysis.operator_modulation_targets, n - 1)],
           returned |-> run_operator_dependency_analysis(
               analysis.operator_volume, analysis.operator_additive,
               analysis.operator_modulation_index, analysis.operator_wave_type,
               analysis.operator_modulation_targets)]
    /\ UNCHANGED <<midi_vars, voices, gen_vars, bank_vars, select, aux_vars>>

AnalysisNext == Analyse

SpecAnalysis == InitAnalysis /\ [][AnalysisNext]_vars

----------------------------------------------------------------------------
(* The kernel selection: process_f32_runtime_select run over a host buffer,
   one action per arm of its match, in every build *)

\* a variant that takes three remaining samples for four
RemainingSamples_new_three(remaining_samples) ==
    IF remaining_samples >= 3 THEN "FourOrMore"
    ELSE IF remaining_samples >= 2 THEN "TwoOrMore"
    ELSE IF remaining_samples = 1 THEN "One"
    ELSE "Zero"

RemainingSamples_new(remaining_samples) ==
    IF remaining_samples >= 4 THEN "FourOrMore"
    ELSE IF remaining_samples >= 2 THEN "TwoOrMore"
    ELSE IF remaining_samples = 1 THEN "One"
    ELSE "Zero"

FallbackSleef == [SAMPLES |-> 1, PD_WIDTH |-> 2]

\* simd: built with the simd feature for x86_64; avx: what
\* is_x86_feature_detected!("avx") answers
Builds == [simd : BOOLEAN, avx : BOOLEAN]

\* a variant whose arm of two frames comes before the arm of four
Arm_two_first(sel) ==
    LET remaining == RemainingSamples_new(sel.num_samples - sel.position)
    IN  IF sel.build.simd /\ remaining \in {"TwoOrMore", "FourOrMore"}
        THEN [name |-> "Sse2", kernel |-> Sse2, samples |-> 2]
        ELSE IF sel.build.simd /\ remaining = "FourOrMore" /\ sel.build.avx
        THEN [name |-> "Avx", kernel |-> Avx, samples |-> 4]
        ELSE IF remaining \in {"One", "TwoOrMore", "FourOrMore"}
        THEN IF sel.build.simd
             THEN [name |-> "Fallback", kernel |-> FallbackSleef, samples |-> 1]
             ELSE [name |-> "Fallback", kernel |-> FallbackStd, samples |-> 1]
        ELSE [name |-> "break"]

\* the arm of the match that is taken: its kernel and how far it moves the
\* position, or the break
Arm(sel) ==
    LET remaining == RemainingSamples_new(sel.num_samples - sel.position)
    IN  IF sel.build.simd /\ remaining = "FourOrMore" /\ sel.build.avx
        THEN [name |-> "Avx", kernel |-> Avx, samples |-> 4]
        ELSE IF sel.build.simd /\ remaining \in {"TwoOrMore", "FourOrMore"}
        THEN [name |-> "Sse2", kernel |-> Sse2, samples |-> 2]
        ELSE IF remaining \in {"One", "TwoOrMore", "FourOrMore"}
        THEN IF sel.build.simd
             THEN [name |-> "Fallback", kernel |-> FallbackSleef, samples |-> 1]
             ELSE [name |-> "Fallback", kernel |-> FallbackStd, samples |-> 1]
        ELSE [name |-> "break"]

\* lefts[position..end_position] can be taken, and the kernel's assertions on
\* the lengths of its slices hold
Sliceable(sel, S, end_position) ==
    /\ end_position <= sel.num_samples
    /\ end_position - sel.position = S.SAMPLES

\* the loop's state after a kernel wrote the slices position..end_position
\* of the two buffers, or after the panic
process_f32(sel, S, end_position) ==
    IF ~Sliceable(sel, S, end_position)
    THEN [sel EXCEPT !.failed = TRUE, !.running = FALSE]
    ELSE [sel EXCEPT
             !.writes = Table([i \in 1..sel.num_samples |->
                 IF i > sel.position /\ i <= end_position THEN @[i] + 1 ELSE @[i]]),
             !.slices = Append(@, <<sel.position, end_position, S.SAMPLES>>),
             !.position = end_position]

\* one turn of the loop, as far as the loop's own state goes
Looped(sel) ==
    IF Arm(sel).name = "break"
    THEN [sel EXCEPT !.running = FALSE]
    ELSE process_f32(sel, Arm(sel).kernel, sel.position + Arm(sel).samples)

\* what a kernel leaves: its batch, or everything as it is if it panics
\* before it begins
KernelCalled(sel, S, end_position) ==
    IF Sliceable(sel, S, end_position)
    THEN process(parameters, rng, voices, S)
    ELSE [voices |-> voices, parameters |-> parameters, rng |-> rng,
          summed |-> summed_additive_outputs, lefts |-> audio_buffer_lefts,
          rights |-> audio_buffer_rights, visited |-> visited, generated |-> generated]

\* a host buffer of up to MaxSamples frames, nothing written, in some build;
\* no key or key 60 down
InitSelect ==
    /\ MidiInit
    /\ voices \in {[p \in 0..(NUM_VOICES - 1) |-> NewVoice],
                   key_on([p \in 0..(NUM_VOICES - 1) |-> NewVoice], 60, 127).voices}
    /\ GenPatchInit
    /\ BankInit
    /\ analysis = NoAnalysis
    /\ AuxInit
    /\ \E n \in 0..MaxSamples, build \in Builds :
          select = [running |-> TRUE, failed |-> FALSE, num_samples |-> n,
                    build |-> build, position |-> 0,
                    writes |-> Table([i \in 1..n |-> 0]), slices |-> <<>>]

\* FourOrMore if is_x86_feature_detected!("avx")
SelectAvx ==
    /\ select.running
    /\ Arm(select).name = "Avx"
    /\ select' = Looped(select)
    /\ \E r \in {KernelCalled(select, Avx, select.position + 4)} :
           /\ voices' = r.voices
           /\ parameters' = r.parameters
           /\ rng' = r.rng
           /\ summed_additive_outputs' = r.summed
           /\ audio_buffer_lefts' = r.lefts
           /\ audio_buffer_rights' = r.rights
           /\ visited' = r.visited
           /\ generated' = r.generated
    /\ UNCHANGED <<midi_vars, changes, batches, bank_vars, analysis, aux_vars>>

\* TwoOrMore | FourOrMore
SelectSse2 ==
    /\ select.running
    /\ Arm(select).name = "Sse2"
    /\ select' = Looped(select)
    /\ \E r \in {KernelCalled(select, Sse2, select.position + 2)} :
           /\ voices' = r.voices
           /\ parameters' = r.parameters
           /\ rng' = r.rng
           /\ summed_additive_outputs' = r.summed
           /\ audio_buffer_lefts' = r.lefts
           /\ audio_buffer_rights' = r.rights
           /\ visited' = r.visited
           /\ generated' = r.generated
    /\ UNCHANGED <<midi_vars, changes, batches, bank_vars, analysis, aux_vars>>

\* One | TwoOrMore | FourOrMore: FallbackSleef in a simd build, FallbackStd
\* in the others
SelectFallback ==
    /\ select.running
    /\ Arm(select).name = "Fallback"
    /\ select' = Looped(select)
    /\ \E r \in {KernelCalled(select, Arm(select).kernel, select.position + 1)} :
           /\ voices' = r.voices
           /\ parameters' = r.parameters
           /\ rng' = r.rng
           /\ summed_additive_outputs' = r.summed
           /\ audio_buffer_lefts' = r.lefts
           /\ audio_buffer_rights' = r.rights
           /\ visited' = r.visited
           /\ generated' = r.generated
    /\ UNCHANGED <<midi_vars, changes, batches, bank_vars, analysis, aux_vars>>

\* Zero => break
SelectBreak ==
    /\ select.running
    /\ Arm(select).name = "break"
    /\ select' = Looped(select)
    /\ UNCHANGED <<midi_vars, voices, gen_vars, bank_vars, analysis, aux_vars>>

SelectNext == SelectAvx \/ SelectSse2 \/ SelectFallback \/ SelectBreak

\* a turn of the loop seen from the loop's state alone
SelectTurn == select.running /\ select' = Looped(select)

\* the loop runs on one thread to its break: a turn that can be taken is taken
SpecSelect == InitSelect /\ [][SelectNext]_vars /\ WF_select(SelectTurn)

----------------------------------------------------------------------------
(* The modulation targets of an operator: ModTargetStorage<N>, a mask of N
   flags (a sequence, flag of index 0 first), with the table of its values *)

permutations_1 == <<<<TRUE>>, <<FALSE>>>>

permutations_2 ==
    <<<<FALSE, FALSE>>, <<TRUE, FALSE>>, <<FALSE, TRUE>>, <<TRUE, TRUE>>>>

permutations_3 ==
    <<<<TRUE, FALSE, FALSE>>,
      <<TRUE, TRUE, FALSE>>,
      <<TRUE, FALSE, TRUE>>,
      <<TRUE, TRUE, TRUE>>,
      <<FALSE, TRUE, FALSE>>,
      <<FALSE, FALSE, TRUE>>,
      <<FALSE, TRUE, TRUE>>,
      <<FALSE, FALSE, TRUE>>,
      <<FALSE, FALSE, FALSE>>>>

permutations(N) ==
    IF N = 1 THEN permutations_1 ELSE IF N = 2 THEN permutations_2 ELSE permutations_3

ModTargetStorage_default(N) ==
    IF N = 1 THEN <<TRUE>> ELSE IF N = 2 THEN <<FALSE, TRUE>> ELSE <<FALSE, FALSE, TRUE>>

set_index(storage, index, value) == [storage EXCEPT ![index + 1] = value]

index_active(storage, index) == storage[index + 1]

active_indices(storage) == {index \in 0..(Len(storage) - 1) : storage[index + 1]}

\* the places of the table that hold the storage
PositionsOf(storage) ==
    {k \in 1..Len(permutations(Len(storage))) : permutations(Len(storage))[k] = storage}

\* the default target of operator 2, 3 or 4, not looked up
InitModTarget ==
    /\ MidiInit
    /\ VoicesInit
    /\ GenInit
    /\ BankInit
    /\ analysis = NoAnalysis
    /\ select = NoSelect
    /\ lfo_call = NoLfoCall
    /\ ThreadInit
    /\ pan_batch = NoPanBatch
    /\ \E N \in 1..3 :
          mod_target = [N |-> N, storage |-> ModTargetStorage_default(N),
                        set |-> <<>>, looked_up |-> FALSE, looked_for |-> <<>>,
                        positions |-> {}]

SetIndex(index, value) ==
    /\ mod_target.N > 0
    /\ index < mod_target.N
    /\ mod_target' = [mod_target EXCEPT
          !.storage = set_index(@, index, value),
          !.set = <<index, value>>]
    /\ UNCHANGED <<midi_vars, voices, gen_vars, bank_vars, fn_vars, lfo_call, thread_vars, pan_batch>>

\* the storage is looked for in the table of its permutations
LookUp ==
    /\ mod_target.N > 0
    /\ mod_target' = [mod_target EXCEPT
          !.looked_up = TRUE,
          !.looked_for = mod_target.storage,
          !.positions = PositionsOf(mod_target.storage)]
    /\ UNCHANGED <<midi_vars, voices, gen_vars, bank_vars, fn_vars, lfo_call, thread_vars, pan_batch>>

ModTargetNext ==
    \/ \E index \in 0..2, value \in BOOLEAN : SetIndex(index, value)
    \/ LookUp

SpecModTarget == InitModTarget /\ [][ModTargetNext]_vars

----------------------------------------------------------------------------
(* get_value_with_lfo_addition of the processing parameters, kind by kind.
   Values in sync (normalized) form and LFO additions count in UNITs; the
   processing value of a free frequency counts in FREQUENCY_ONEs *)

FREQUENCY_ONE == 80

\* LFO_FREQUENCY_FREE_STEPS: 1/16, 0.5, 0.9, 1.0, 1.1, 2.0, 16.0
LFO_FREQUENCY_FREE_STEPS == <<5, 40, 72, 80, 88, 160, 1280>>

\* a sync value mapped onto the steps, linearly between two of them
map_parameter_value_to_value_with_steps(steps, value) ==
    LET position == Max2(Min2(value, UNIT), 0) * (Len(steps) - 1)
        lower == position \div UNIT
        upper == Min2(lower + 1, Len(steps) - 1)
    IN  steps[lower + 1]
        + ((steps[upper + 1] - steps[lower + 1]) * (position % UNIT)) \div UNIT

\* its inverse: the least sync value that maps to the value or above it
map_value_to_parameter_value_with_steps(steps, value) ==
    CHOOSE v \in 0..UNIT :
        /\ \/ map_parameter_value_to_value_with_steps(steps, v) >= value
           \/ v = UNIT
        /\ \A w \in 0..(v - 1) : map_parameter_value_to_value_with_steps(steps, w) < value

\* P::from_sync(_).get() and P::from_processing(_).to_sync() of the value
\* type of a kind: the stepped LfoFrequencyFreeValue, the rounding
\* LfoActiveValue, and values that are their own sync form, as
\* OperatorPanningValue is
from_sync(kind, value) ==
    IF kind = "FreeFrequency"
    THEN map_parameter_value_to_value_with_steps(LFO_FREQUENCY_FREE_STEPS, value)
    ELSE IF kind = "Simple"
    THEN (IF 2 * value >= UNIT THEN UNIT ELSE 0)
    ELSE value

to_sync(kind, value) ==
    IF kind = "FreeFrequency"
    THEN map_value_to_parameter_value_with_steps(LFO_FREQUENCY_FREE_STEPS, value)
    ELSE value

\* (sync_value + lfo_addition).min(1.0).max(0.0)
AddedInSync(sync_value, lfo_addition) == Max2(Min2(sync_value + lfo_addition, UNIT), 0)

ProcessingKinds ==
    {"Interpolatable", "Simple", "MasterVolume", "OperatorVolume", "OperatorVolumeToggle",
     "OperatorMix", "FreeFrequency", "OperatorPanning", "LfoAmount"}

\* get_value_with_lfo_addition of a parameter [kind, value, sync_cache,
\* left_and_right, lfo_active]: what it returns and what it leaves
get_value_with_lfo_addition(parameter, lfo_addition) ==
    IF parameter.kind \in {"MasterVolume", "OperatorVolume", "FreeFrequency", "LfoAmount"}
    THEN [returned |-> VolumeWithLfoAddition(parameter.value, lfo_addition),
          parameter |-> parameter]
    ELSE IF parameter.kind = "OperatorVolumeToggle"
    THEN [returned |-> parameter.value, parameter |-> parameter]
    ELSE IF parameter.kind = "OperatorPanning"
    THEN [returned |->
              PanningWithLfoAddition(
                  [value |-> parameter.value, left_and_right |-> parameter.left_and_right,
                   lfo_active |-> parameter.lfo_active], lfo_addition).value,
          parameter |->
              [parameter EXCEPT
                  !.left_and_right =
                      PanningWithLfoAddition(
                          [value |-> parameter.value,
                           left_and_right |-> parameter.left_and_right,
                           lfo_active |-> parameter.lfo_active],
                          lfo_addition).parameter.left_and_right,
                  !.lfo_active =
                      PanningWithLfoAddition(
                          [value |-> parameter.value,
                           left_and_right |-> parameter.left_and_right,
                           lfo_active |-> parameter.lfo_active],
                          lfo_addition).parameter.lfo_active]]
    ELSE IF lfo_addition = None
    THEN [returned |-> parameter.value, parameter |-> parameter]
    ELSE IF parameter.kind = "Simple"
    THEN [returned |->
              from_sync(parameter.kind, AddedInSync(parameter.sync_cache, lfo_addition[1])),
          parameter |-> parameter]
    ELSE [returned |->
              from_sync(parameter.kind,
                        AddedInSync(to_sync(parameter.kind, parameter.value),
                                    lfo_addition[1])),
          parameter |-> parameter]

\* sync values a parameter was set from, and the additions of an LFO
SyncValues == {0, 2, UNIT \div 2, UNIT}

LfoAdditions == {None, Some(0 - UNIT), Some(0), Some(UNIT)}

\* a processing parameter of some kind as set_from_sync left it
InitLfoCall ==
    /\ MidiInit
    /\ VoicesInit
    /\ GenInit
    /\ BankInit
    /\ analysis = NoAnalysis
    /\ select = NoSelect
    /\ mod_target = NoModTarget
    /\ ThreadInit
    /\ pan_batch = NoPanBatch
    /\ \E kind \in ProcessingKinds, sync_value \in SyncValues :
          lfo_call = [kind |-> kind,
                      parameter |-> [kind |-> kind,
                                     value |-> from_sync(kind, sync_value),
                                     sync_cache |-> sync_value,
                                     left_and_right |-> calculate_left_and_right(sync_value),
                                     lfo_active |-> FALSE],
                      called |-> FALSE, before |-> 0, lfo_addition |-> None, returned |-> 0]

GetValueWithLfoAddition(lfo_addition) ==
    /\ lfo_call.kind # ""
    /\ ~lfo_call.called
    /\ \E r \in {get_value_with_lfo_addition(lfo_call.parameter, lfo_addition)} :
          lfo_call' = [lfo_call EXCEPT
              !.called = TRUE,
              !.before = lfo_call.parameter.value,
              !.lfo_addition = lfo_addition,
              !.returned = r.returned,
              !.parameter = r.parameter]
    /\ UNCHANGED <<midi_vars, voices, gen_vars, bank_vars, fn_vars, mod_target, thread_vars, pan_batch>>

LfoCallNext == \E lfo_addition \in LfoAdditions : GetValueWithLfoAddition(lfo_addition)

SpecLfoCall == InitLfoCall /\ [][LfoCallNext]_vars

----------------------------------------------------------------------------
(* The panning parameter of one operator over the batches of a buffer: it
   advances sample by sample before a batch, and the batch gathers it for
   each active voice with that voice's LFO addition and then reads the
   stored gains for the voice's samples *)

\* how far the interpolated value moves towards its target in one sample
PANNING_STEP == UNIT \div 2

\* the interpolated value after one sample
InterpolatedOneSample(value, target) ==
    IF value < target THEN Min2(value + PANNING_STEP, target)
    ELSE IF value > target THEN Max2(value - PANNING_STEP, target)
    ELSE value

\* OperatorPanningProcessingParameter::advance_one_sample
advance_one_sample(parameter) ==
    [parameter EXCEPT
        !.value = InterpolatedOneSample(parameter.value, parameter.target),
        !.left_and_right =
            IF InterpolatedOneSample(parameter.value, parameter.target) # parameter.value
            THEN calculate_left_and_right(
                     InterpolatedOneSample(parameter.value, parameter.target))
            ELSE IF parameter.lfo_active
            THEN calculate_left_and_right(parameter.value)
            ELSE @,
        !.lfo_active = FALSE]

\* panning values: left, centre, right; LFO additions of a voice: none, or
\* half the range either way
PanningValues == {0, UNIT \div 2, UNIT}
PanningLfoAdditions == {None, Some(0 - (UNIT \div 2)), Some(UNIT \div 2)}

InitPanBatch ==
    /\ MidiInit
    /\ VoicesInit
    /\ GenInit
    /\ BankInit
    /\ analysis = NoAnalysis
    /\ select = NoSelect
    /\ mod_target = NoModTarget
    /\ lfo_call = NoLfoCall
    /\ ThreadInit
    /\ pan_batch = [phase |-> "between",
                    parameter |-> [kind |-> "OperatorPanning",
                                   value |-> UNIT \div 2,
                                   target |-> UNIT \div 2,
                                   sync_cache |-> UNIT \div 2,
                                   left_and_right |-> calculate_left_and_right(UNIT \div 2),
                                   lfo_active |-> FALSE],
                    \* per voice gathered so far in the batch: its LFO
                    \* addition, the panning gathered and the gains read
                    gathered |-> <<>>]

\* set_from_sync between two batches: the interpolation gets a new target
PanSetFromSync(value) ==
    /\ pan_batch.phase = "between"
    /\ pan_batch.parameter.target # value
    /\ pan_batch' = [pan_batch EXCEPT !.parameter.target = value,
                                      !.parameter.sync_cache = value]
    /\ UNCHANGED <<midi_vars, voices, gen_vars, bank_vars, fn_vars, mod_target, lfo_call,
                   thread_vars>>

\* the parameter advances by one sample before the voices are gathered
PanAdvanceOneSample ==
    /\ pan_batch.phase # ""
    /\ pan_batch.phase = "between" \/ pan_batch.gathered = <<>>
    /\ pan_batch' = [phase |-> "batch",
                     parameter |-> advance_one_sample(pan_batch.parameter),
                     gathered |-> <<>>]
    /\ UNCHANGED <<midi_vars, voices, gen_vars, bank_vars, fn_vars, mod_target, lfo_call,
                   thread_vars>>

\* the batch gathers the panning for its next voice and reads the gains for
\* that voice's samples
PanGather(lfo_addition) ==
    /\ pan_batch.phase = "batch"
    /\ Len(pan_batch.gathered) < MaxVoices
    /\ \E r \in {get_value_with_lfo_addition(pan_batch.parameter, lfo_addition)} :
          pan_batch' = [pan_batch EXCEPT
              !.parameter = r.parameter,
              !.gathered = Append(@, [lfo_addition |-> lfo_addition,
                                      before |-> pan_batch.parameter.value,
                                      operator_panning |-> r.returned,
                                      left_and_right |-> r.parameter.left_and_right])]
    /\ UNCHANGED <<midi_vars, voices, gen_vars, bank_vars, fn_vars, mod_target, lfo_call,
                   thread_vars>>

\* the batch is done
PanEndBatch ==
    /\ pan_batch.phase = "batch"
    /\ pan_batch.gathered # <<>>
    /\ pan_batch' = [pan_batch EXCEPT !.phase = "between"]
    /\ UNCHANGED <<midi_vars, voices, gen_vars, bank_vars, fn_vars, mod_target, lfo_call,
                   thread_vars>>

PanBatchNext ==
    \/ \E value \in PanningValues : PanSetFromSync(value)
    \/ PanAdvanceOneSample
    \/ \E lfo_addition \in PanningLfoAdditions : PanGather(lfo_addition)
    \/ PanEndBatch

SpecPanBatch == InitPanBatch /\ [][PanBatchNext]_vars

----------------------------------------------------------------------------
(* The host's control thread sets parameters while the audio thread asks for
   the changed ones. A value written is the number of the write, so that a
   later write holds a greater value *)

SyncIndices == 0..(NumParameters - 1)

\* a variant that marks the parameter as changed before it stores the value
set_parameter_from_host_steps_mark_first == <<"mark_as_changed_audio", "set_value", "mark_as_changed_gui">>

\* PatchBank::set_parameter_from_host, statement by statement
set_parameter_from_host_steps == <<"set_value", "mark_as_changed_audio", "mark_as_changed_gui">>

InitSync ==
    /\ MidiInit
    /\ VoicesInit
    /\ GenInit
    /\ BankInit
    /\ analysis = NoAnalysis
    /\ select = NoSelect
    /\ mod_target = NoModTarget
    /\ lfo_call = NoLfoCall
    /\ pan_batch = NoPanBatch
    /\ flag_sync = NoFlagSync
    /\ sync = [writes |-> 0,
               values |-> [i \in SyncIndices |-> 0],
               changed_audio |-> {},
               changed_gui |-> {},
               host |-> [pc |-> 0, index |-> 0, value |-> 0],
               audio |-> [pc |-> "idle", bits |-> {},
                          marked |-> [i \in SyncIndices |-> 0],
                          returned |-> [i \in SyncIndices |-> 0]],
               \* the value of the latest set of each parameter that returned,
               \* the value of the write that last marked it for the audio
               \* side, the latest value reported to the audio side, and the
               \* latest answer of get_changed_parameters_from_audio
               returned |-> [i \in SyncIndices |-> 0],
               marked |-> [i \in SyncIndices |-> 0],
               reported |-> [i \in SyncIndices |-> 0],
               report |-> None]

\* the host calls set_parameter_from_host(index, value)
HostSetParameter(index) ==
    /\ sync.writes < MaxWrites
    /\ sync.host.pc = 0
    /\ sync' = [sync EXCEPT !.writes = @ + 1,
                            !.host = [pc |-> 1, index |-> index, value |-> sync.writes + 1]]
    /\ UNCHANGED <<midi_vars, voices, gen_vars, bank_vars, fn_vars, mod_target, lfo_call, flag_sync, pan_batch>>

\* the statement after which the call returns
Returning(s) ==
    IF s.host.pc = Len(set_parameter_from_host_steps)
    THEN [s EXCEPT !.host.pc = 0, !.returned[s.host.index] = s.host.value]
    ELSE [s EXCEPT !.host.pc = @ + 1]

\* parameter.set_value(value)
HostSetValue ==
    /\ sync.writes > 0
    /\ sync.host.pc > 0
    /\ set_parameter_from_host_steps[sync.host.pc] = "set_value"
    /\ sync' = Returning([sync EXCEPT !.values[sync.host.index] = sync.host.value])
    /\ UNCHANGED <<midi_vars, voices, gen_vars, bank_vars, fn_vars, mod_target, lfo_call, flag_sync, pan_batch>>

\* self.parameter_change_info_audio.mark_as_changed(index)
HostMarkAudio ==
    /\ sync.writes > 0
    /\ sync.host.pc > 0
    /\ set_parameter_from_host_steps[sync.host.pc] = "mark_as_changed_audio"
    /\ sync' = Returning([sync EXCEPT !.changed_audio = @ \cup {sync.host.index},
                                      !.marked[sync.host.index] = sync.host.value])
    /\ UNCHANGED <<midi_vars, voices, gen_vars, bank_vars, fn_vars, mod_target, lfo_call, flag_sync, pan_batch>>

\* self.parameter_change_info_gui.mark_as_changed(index)
HostMarkGui ==
    /\ sync.writes > 0
    /\ sync.host.pc > 0
    /\ set_parameter_from_host_steps[sync.host.pc] = "mark_as_changed_gui"
    /\ sync' = Returning([sync EXCEPT !.changed_gui = @ \cup {sync.host.index}])
    /\ UNCHANGED <<midi_vars, voices, gen_vars, bank_vars, fn_vars, mod_target, lfo_call, flag_sync, pan_batch>>

\* get_changed_parameters_from_audio takes the changed bits and clears them;
\* with no bit set it returns None
AudioTakeChanged ==
    /\ sync.writes > 0
    /\ sync.audio.pc = "idle"
    /\ sync' = [sync EXCEPT
          !.changed_audio = {},
          !.audio = [pc |-> IF sync.changed_audio = {} THEN "idle" ELSE "taken",
                     bits |-> sync.changed_audio,
                     marked |-> sync.marked,
                     returned |-> sync.returned],
          !.report = IF sync.changed_audio = {} THEN None ELSE @]
    /\ UNCHANGED <<midi_vars, voices, gen_vars, bank_vars, fn_vars, mod_target, lfo_call, flag_sync, pan_batch>>

\* and then loads the value of each parameter whose bit it took
AudioLoadValues ==
    /\ sync.writes > 0
    /\ sync.audio.pc = "taken"
    /\ sync' = [sync EXCEPT
          !.audio.pc = "idle",
          !.report = Some([i \in SyncIndices |->
                              IF i \in sync.audio.bits THEN Some(sync.values[i]) ELSE None]),
          !.reported = [i \in SyncIndices |->
                           IF i \in sync.audio.bits THEN sync.values[i] ELSE @[i]]]
    /\ UNCHANGED <<midi_vars, voices, gen_vars, bank_vars, fn_vars, mod_target, lfo_call, flag_sync, pan_batch>>

SyncNext ==
    \/ \E index \in SyncIndices : HostSetParameter(index)
    \/ HostSetValue
    \/ HostMarkAudio
    \/ HostMarkGui
    \/ AudioTakeChanged
    \/ AudioLoadValues

SpecSync == InitSync /\ [][SyncNext]_vars

----------------------------------------------------------------------------
(* The patch bank specification *)

PatchIndices == {1, NUM_PATCHES - 1, NUM_PATCHES, 2 * NUM_PATCHES}

\* "Ba" and "Bä"
PatchNames == {<<66, 97>>, <<66, 228>>}

\* parameter indices, one of them beyond the last parameter
ParameterIndices == {0, NumParameters - 1, NumParameters}

GuiValues == {3, F32_ONE + 2}
HostValues == {F32_ONE + 2}

\* serde patches with as many parameters as a patch has, fewer and more
SerdePatchOf(name, count, value) ==
    [name |-> name, parameters |-> [i \in 1..count |-> [value_float |-> from_f32(value)]]]

SerdePatches ==
    {SerdePatchOf(<<83>>, NumParameters, 3),
     SerdePatchOf(<<76, 246>>, NumParameters + 1, 1),
     SerdePatchOf(<<>>, NumParameters - 1, 4)}

\* banks of no patch, of one patch, and of more patches than a bank holds
SerdeBanks ==
    {[patches |-> <<>>]}
    \cup {[patches |-> <<sp>>] : sp \in SerdePatches}
    \cup {[patches |-> [n \in 1..(NUM_PATCHES + 1) |-> SerdePatchOf(<<83>>, NumParameters, 3)]]}

\* patch lists of one patch, of two, and of more than a bank holds
SerdePatchLists ==
    {<<sp>> : sp \in SerdePatches}
    \cup {<<SerdePatchOf(<<83>>, NumParameters, 3), SerdePatchOf(<<84>>, NumParameters, 1)>>}
    \cup {[n \in 1..(NUM_PATCHES + 1) |-> SerdePatchOf(<<83>>, NumParameters, 3)]}

\* how many parameters each patch of imported data carries
ParameterCounts(serde_patches) ==
    [n \in 1..Len(serde_patches) |-> Len(serde_patches[n].parameters)]

\* The host or the GUI selects a patch
SetPatchIndex(index) ==
    /\ ops < MaxOps
    /\ ops' = ops + 1
    /\ patch_bank' = set_patch_index(patch_bank, index)
    /\ called' = NoCall
    /\ UNCHANGED <<bank_1, bank_2, midi_vars, voices, gen_vars, fn_vars, aux_vars>>

\* The current patch is renamed
SetPatchName(name) ==
    /\ ops < MaxOps
    /\ ops' = ops + 1
    /\ patch_bank' = set_patch_name(patch_bank, name)
    /\ called' = NoCall
    /\ UNCHANGED <<bank_1, bank_2, midi_vars, voices, gen_vars, fn_vars, aux_vars>>

\* The GUI sets a parameter of the current patch
SetParameterFromGui(index, value) ==
    /\ ops < MaxOps
    /\ ops' = ops + 1
    /\ patch_bank' = set_parameter_from_gui(patch_bank, index, value)
    /\ called' = NoCall
    /\ UNCHANGED <<bank_1, bank_2, midi_vars, voices, gen_vars, fn_vars, aux_vars>>

\* The host sets a parameter of the current patch
SetParameterFromHost(index, value) ==
    /\ ops < MaxOps
    /\ ops' = ops + 1
    /\ patch_bank' = set_parameter_from_host(patch_bank, index, value)
    /\ called' = NoCall
    /\ UNCHANGED <<bank_1, bank_2, midi_vars, voices, gen_vars, fn_vars, aux_vars>>

\* A bank is imported
ImportBankFromSerde(serde_bank) ==
    /\ ops < MaxOps
    /\ ops' = ops + 1
    /\ patch_bank' = import_bank_from_serde(patch_bank, serde_bank)
    /\ called' = [op |-> "import_bank_from_serde", args |-> <<ParameterCounts(serde_bank.patches)>>, value |-> ""]
    /\ UNCHANGED <<bank_1, bank_2, midi_vars, voices, gen_vars, fn_vars, aux_vars>>

\* Patches are imported from the current patch on
ImportPatchesFromSerde(serde_patches) ==
    /\ ops < MaxOps
    /\ ops' = ops + 1
    /\ patch_bank' = import_patches_from_serde(patch_bank, serde_patches)
    /\ called' = [op |-> "import_patches_from_serde", args |-> <<patch_bank.patch_index, ParameterCounts(serde_patches)>>, value |-> ""]
    /\ UNCHANGED <<bank_1, bank_2, midi_vars, voices, gen_vars, fn_vars, aux_vars>>

\* The current patch is cleared
ClearCurrentPatch ==
    /\ ops < MaxOps
    /\ ops' = ops + 1
    /\ patch_bank' = clear_current_patch(patch_bank)
    /\ called' = NoCall
    /\ UNCHANGED <<bank_1, bank_2, midi_vars, voices, gen_vars, fn_vars, aux_vars>>

\* The bank is cleared
ClearBank ==
    /\ ops < MaxOps
    /\ ops' = ops + 1
    /\ patch_bank' = clear_bank(patch_bank)
    /\ called' = NoCall
    /\ UNCHANGED <<bank_1, bank_2, midi_vars, voices, gen_vars, fn_vars, aux_vars>>

\* test_export_import: the bank's bytes imported into a fresh bank
ExportImport ==
    /\ bank_1' = patch_bank
    /\ bank_2' = import_bank_from_bytes(PatchBank_new, export_bank_as_bytes(patch_bank))
    /\ UNCHANGED <<patch_bank, ops, called, midi_vars, voices, gen_vars, fn_vars, aux_vars>>

BankNext ==
    \/ \E index \in PatchIndices : SetPatchIndex(index)
    \/ \E name \in PatchNames : SetPatchName(name)
    \/ \E index \in ParameterIndices, value \in GuiValues : SetParameterFromGui(index, value)
    \/ \E index \in ParameterIndices, value \in HostValues : SetParameterFromHost(index, value)
    \/ \E serde_bank \in SerdeBanks : ImportBankFromSerde(serde_bank)
    \/ \E serde_patches \in SerdePatchLists : ImportPatchesFromSerde(serde_patches)
    \/ ClearCurrentPatch
    \/ ClearBank
    \/ ExportImport

SpecBank == Init /\ [][BankNext]_vars

----------------------------------------------------------------------------
(* The patch bank fed bytes and text by the host *)

\* the bytes of a bank of one patch: whole, cut short, with a byte too many;
\* and no bytes at all
OnePatchBankBytes == to_bytes([patches |-> <<SerdePatchOf(<<83>>, NumParameters, 3)>>])
BankByteInputs ==
    {OnePatchBankBytes,
     SubSeq(OnePatchBankBytes, 1, Len(OnePatchBankBytes) - 1),
     Append(OnePatchBankBytes, 0),
     <<>>}

\* the bytes of a patch: whole and cut short; and no bytes at all
OnePatchBytes == PatchBytes(SerdePatchOf(<<84>>, NumParameters, 3))
PatchByteInputs ==
    {OnePatchBytes, SubSeq(OnePatchBytes, 1, Len(OnePatchBytes) - 1), <<>>}

\* "2", "x" and the empty text
TextInputs == {<<50>>, <<120>>, <<>>}

Bool(b) == IF b THEN "true" ELSE "false"

\* SyncState::load_bank_data
ImportBankFromBytes(bytes) ==
    /\ ops < MaxOps
    /\ ops' = ops + 1
    /\ patch_bank' = import_bank_from_bytes(patch_bank, bytes)
    /\ called' = [op |-> "import_bank_from_bytes", args |-> <<bytes>>,
                  value |-> import_bank_from_bytes_returned(bytes)]
    /\ UNCHANGED <<bank_1, bank_2, midi_vars, voices, gen_vars, fn_vars, aux_vars>>

\* SyncState::load_preset_data
ImportBytesIntoCurrentPatch(bytes) ==
    /\ ops < MaxOps
    /\ ops' = ops + 1
    /\ patch_bank' = import_bytes_into_current_patch(patch_bank, bytes)
    /\ called' = [op |-> "import_bytes_into_current_patch", args |-> <<bytes>>,
                  value |-> Bool(import_bytes(get_current_patch(patch_bank), bytes).returned)]
    /\ UNCHANGED <<bank_1, bank_2, midi_vars, voices, gen_vars, fn_vars, aux_vars>>

\* SyncState::string_to_parameter
SetParameterTextFromHost(index, text) ==
    /\ ops < MaxOps
    /\ ops' = ops + 1
    /\ patch_bank' = set_parameter_text_from_host(patch_bank, index, text).bank
    /\ called' = [op |-> "set_parameter_text_from_host", args |-> <<index, text>>,
                  value |-> Bool(set_parameter_text_from_host(patch_bank, index, text).returned)]
    /\ UNCHANGED <<bank_1, bank_2, midi_vars, voices, gen_vars, fn_vars, aux_vars>>

BankIONext ==
    \/ \E index \in PatchIndices : SetPatchIndex(index)
    \/ \E index \in ParameterIndices, value \in GuiValues : SetParameterFromGui(index, value)
    \/ \E bytes \in BankByteInputs : ImportBankFromBytes(bytes)
    \/ \E bytes \in PatchByteInputs : ImportBytesIntoCurrentPatch(bytes)
    \/ \E index \in ParameterIndices, text \in TextInputs : SetParameterTextFromHost(index, text)

SpecBankIO == Init /\ [][BankIONext]_vars

----------------------------------------------------------------------------
(* A thread changes patches statement by statement while the GUI asks
   whether patches have changed and the host asks which parameters can be
   automated *)

\* a variant that loads the flag and leaves it
have_patches_changed_load(bank) == [returned |-> bank.patches_changed, bank |-> bank]

\* PatchBank::have_patches_changed: self.patches_changed.fetch_and(false)
have_patches_changed(bank) ==
    [returned |-> bank.patches_changed, bank |-> [bank EXCEPT !.patches_changed = FALSE]]

\* the name of the parameter at an index of a patch
ParameterName(index) == <<80, DIGIT_ZERO + index>>

\* PatchBank::get_parameter_name and SyncState::get_parameter_name
get_parameter_name(bank, index) ==
    IF AsUsize(index) < num_parameters(bank) THEN ParameterName(AsUsize(index)) ELSE <<>>

\* SyncState::can_be_automated
can_be_automated(bank, index) == num_parameters(bank) < AsUsize(index)

\* the calls that may change patches
PatchChangeCalls ==
    {[op |-> "set_patch_index", arg |-> index] : index \in {1, NUM_PATCHES}}
    \cup {[op |-> "set_patch_name", arg |-> name] : name \in PatchNames}
    \cup {[op |-> "import_bytes_into_current_patch", arg |-> bytes] : bytes \in {OnePatchBytes, <<>>}}
    \cup {[op |-> "clear_current_patch", arg |-> 0], [op |-> "clear_bank", arg |-> 0]}

\* the statements a call executes, in their order in the code
StepsOf(bank, call) ==
    IF call.op = "set_patch_index"
    THEN (IF call.arg >= num_patches(bank) THEN <<>>
          ELSE <<"patch_index.store", "patches_changed.store", "mark_parameters_as_changed">>)
    ELSE IF call.op = "set_patch_name"
    THEN <<"set_name", "patches_changed.store">>
    ELSE IF call.op = "import_bytes_into_current_patch"
    THEN (IF import_bytes(get_current_patch(bank), call.arg).returned
          THEN <<"import_bytes", "mark_parameters_as_changed", "patches_changed.store">>
          ELSE <<"import_bytes">>)
    ELSE IF call.op = "clear_current_patch"
    THEN <<"set_from_patch_parameters", "mark_parameters_as_changed", "patches_changed.store">>
    ELSE <<"set_from_patch_parameters_all", "patch_index.store", "patches_changed.store",
           "mark_parameters_as_changed", "mark_parameters_as_changed", "patches_changed.store">>

\* what one statement does to the bank
StepEffect(bank, call, step) ==
    IF step = "patch_index.store"
    THEN [bank EXCEPT !.patch_index = call.arg]
    ELSE IF step = "patches_changed.store"
    THEN StorePatchesChanged(bank)
    ELSE IF step = "mark_parameters_as_changed"
    THEN mark_parameters_as_changed(bank)
    ELSE IF step = "set_name"
    THEN [bank EXCEPT !.patches[bank.patch_index] = set_name(@, call.arg)]
    ELSE IF step = "import_bytes"
    THEN [bank EXCEPT !.patches[bank.patch_index] = import_bytes(@, call.arg).patch]
    ELSE IF step = "set_from_patch_parameters"
    THEN [bank EXCEPT !.patches[bank.patch_index] =
             set_from_patch_parameters(@, PatchParameter_all)]
    ELSE [bank EXCEPT !.patches = [index \in DOMAIN bank.patches |->
             set_from_patch_parameters(bank.patches[index], PatchParameter_all)]]

\* whether a call is a patch change: a patch selected by a valid index, a
\* patch renamed, a patch imported, the current patch or the bank cleared
IsPatchChange(bank, call) ==
    IF call.op = "set_patch_index" THEN call.arg < num_patches(bank)
    ELSE IF call.op = "import_bytes_into_current_patch"
    THEN patch_from_bytes(call.arg).ok
    ELSE TRUE

\* indices the host asks about: -1, the first parameter, and the two
\* indices past the last
AutomationIndices == {0 - 1, 0, NumParameters, NumParameters + 1}

InitPatchSync ==
    /\ MidiInit
    /\ VoicesInit
    /\ GenInit
    /\ BankInit
    /\ analysis = NoAnalysis
    /\ select = NoSelect
    /\ mod_target = NoModTarget
    /\ lfo_call = NoLfoCall
    /\ pan_batch = NoPanBatch
    /\ sync = NoSync
    /\ flag_sync = [calls |-> 0,
                    changer |-> [pc |-> 0, steps |-> <<>>, call |-> None,
                                 change |-> FALSE, stored |-> FALSE],
                    \* a patch change stored the flag since the latest call of
                    \* have_patches_changed; what that call returned; the
                    \* latest call that returned; the host's latest question
                    pending |-> FALSE,
                    returned |-> None,
                    done |-> None,
                    query |-> None]

\* clear_bank and import_bank_from_serde store index 0
CallOf(call) == IF call.op = "clear_bank" THEN [call EXCEPT !.arg = 0] ELSE call

\* a call that may change patches begins; one without a statement to
\* execute returns at once
ChangerCall(call) ==
    /\ flag_sync.calls >= 0
    /\ "changer" \in DOMAIN flag_sync
    /\ flag_sync.changer.pc = 0
    /\ ops < MaxOps
    /\ ops' = ops + 1
    /\ \E steps \in {StepsOf(patch_bank, call)} :
          flag_sync' = [flag_sync EXCEPT
              !.changer = [pc |-> IF steps = <<>> THEN 0 ELSE 1,
                           steps |-> steps,
                           call |-> Some(CallOf(call)),
                           change |-> IsPatchChange(patch_bank, call),
                           stored |-> FALSE],
              !.done = IF steps = <<>>
                       THEN Some([call |-> CallOf(call),
                                  change |-> IsPatchChange(patch_bank, call),
                                  stored |-> FALSE])
                       ELSE @]
    /\ UNCHANGED <<patch_bank, bank_1, bank_2, called, midi_vars, voices, gen_vars, fn_vars,
                   mod_target, lfo_call, sync, pan_batch>>

\* the next statement of the call under way
ChangerStep ==
    /\ "changer" \in DOMAIN flag_sync
    /\ flag_sync.changer.pc > 0
    /\ \E step \in {flag_sync.changer.steps[flag_sync.changer.pc]} :
          /\ patch_bank' = StepEffect(patch_bank, flag_sync.changer.call[1], step)
          /\ \E stored \in {flag_sync.changer.stored \/ step = "patches_changed.store"} :
                flag_sync' = [flag_sync EXCEPT
                    !.changer.pc = IF @ = Len(flag_sync.changer.steps) THEN 0 ELSE @ + 1,
                    !.changer.stored = stored,
                    !.pending = @ \/ step = "patches_changed.store",
                    !.done = IF flag_sync.changer.pc = Len(flag_sync.changer.steps)
                             THEN Some([call |-> flag_sync.changer.call[1],
                                        change |-> flag_sync.changer.change,
                                        stored |-> stored])
                             ELSE @]
    /\ UNCHANGED <<bank_1, bank_2, ops, called, midi_vars, voices, gen_vars, fn_vars,
                   mod_target, lfo_call, sync, pan_batch>>

\* the GUI calls have_patches_changed
HavePatchesChanged ==
    /\ "changer" \in DOMAIN flag_sync
    /\ flag_sync.calls < MaxCalls
    /\ patch_bank' = have_patches_changed(patch_bank).bank
    /\ flag_sync' = [flag_sync EXCEPT
          !.calls = @ + 1,
          !.pending = FALSE,
          !.returned = Some(have_patches_changed(patch_bank).returned)]
    /\ UNCHANGED <<bank_1, bank_2, ops, called, midi_vars, voices, gen_vars, fn_vars,
                   mod_target, lfo_call, sync, pan_batch>>

\* the host asks whether the parameter at an index can be automated and
\* for its name
CanBeAutomated(index) ==
    /\ "changer" \in DOMAIN flag_sync
    /\ flag_sync' = [flag_sync EXCEPT
          !.query = Some([index |-> index,
                          num_parameters |-> num_parameters(patch_bank),
                          can_be_automated |-> can_be_automated(patch_bank, index),
                          name |-> get_parameter_name(patch_bank, index)])]
    /\ UNCHANGED <<bank_vars, midi_vars, voices, gen_vars, fn_vars, mod_target, lfo_call, sync, pan_batch>>

PatchSyncNext ==
    \/ \E call \in PatchChangeCalls : ChangerCall(call)
    \/ ChangerStep
    \/ HavePatchesChanged
    \/ \E index \in AutomationIndices : CanBeAutomated(index)

SpecPatchSync == InitPatchSync /\ [][PatchSyncNext]_vars

----------------------------------------------------------------------------
(* Claims *)

Occurrences(log, id) == {i \in 1..Len(log) : log[i][1] = id}

\* C1: when a buffer of n frames has been rendered, every event that was
\* pending at its start with 0 <= delta_frames < n has been dispatched
\* exactly once, at sample index delta_frames, whatever else was pending.
C1_DispatchedAtItsFrame ==
    (rendering /\ buffer_offset = buffer_len /\ ~panicked) =>
        \A e \in at_buffer_start :
            (0 <= e.delta_frames /\ e.delta_frames < buffer_len) =>
                /\ Cardinality(Occurrences(dispatched, e.id)) = 1
                /\ \A i \in Occurrences(dispatched, e.id) :
                       dispatched[i][2] = e.delta_frames

IsSortedByDelta(q) ==
    \A i \in 1..(Len(q) - 1) : q[i].delta_frames <= q[i + 1].delta_frames

\* C2: every enqueue_midi_events call leaves the queue sorted in
\* non-decreasing delta_frames order, holding exactly the events pending
\* before plus the events of the batch, each once.
C2_EnqueueSortsAndKeeps ==
    [][next_id' > next_id =>
          /\ IsSortedByDelta(pending_midi_events')
          /\ Len(pending_midi_events') = Len(pending_midi_events) + Len(enqueued')
          /\ SeqToSet(pending_midi_events') =
                 SeqToSet(pending_midi_events) \cup SeqToSet(enqueued')]_vars

\* an enqueue has put a new event in front of an older, still pending one
C2_Witness ==
    /\ enqueued # <<>>
    /\ Len(pending_midi_events) > Len(enqueued)
    /\ \E i, j \in 1..Len(pending_midi_events) :
           i < j /\ pending_midi_events[i].id > pending_midi_events[j].id

\* C3: process_midi_event decides by the high nibble of the status byte
\* alone: the same event on another channel has the same outcome; nibble 8
\* releases the key of the voice at the pitch byte, nibble 9 presses it with
\* the velocity, or releases it when the velocity is 0, and every other
\* nibble leaves the voices as they are.
C3_NibbleDecides ==
    \A d \in DispatchData :
        LET n == d[1] \div 16
            pitch == d[2]
            r == process_midi_event(voices, d)
        IN  /\ r = process_midi_event(voices, <<n * 16, d[2], d[3]>>)
            /\ (n = 8 /\ pitch < NUM_VOICES) =>
                   r.voices = [voices EXCEPT ![pitch].key_pressed = FALSE]
            /\ (n = 9 /\ d[3] = 0 /\ pitch < NUM_VOICES) =>
                   r.voices = [voices EXCEPT ![pitch].key_pressed = FALSE]
            /\ (n = 9 /\ d[3] > 0 /\ pitch < NUM_VOICES) =>
                   /\ r.voices[pitch].key_pressed
                   /\ r.voices[pitch].active
                   /\ r.voices[pitch].key_velocity = FromMidiVelocity(d[3])
                   /\ \A p \in 0..(NUM_VOICES - 1) :
                          p # pitch => r.voices[p] = voices[p]
            /\ (n \notin {8, 9}) => (r.voices = voices /\ ~r.panicked)

\* a key pressed by a note-on, another one released again by a note-off
C3_Witness ==
    /\ voices[127].key_pressed /\ voices[127].key_velocity = 127
    /\ voices[0].active /\ ~voices[0].key_pressed

\* C4: dispatching an event never fails, for every value of the three data
\* bytes, and changes no voice but the one selected by the pitch byte.
C4_DispatchNeverFails ==
    [][\A d \in DispatchData :
          Dispatch(d) =>
              /\ ~panicked'
              /\ \A p \in 0..(NUM_VOICES - 1) :
                     p # d[2] => voices'[p] = voices[p]]_vars

AllZero(buffer) == \A i \in 1..Len(buffer) : buffer[i] = 0
WithinLimit(x) == 0 - HARD_LIMIT <= x /\ x <= HARD_LIMIT
AllEnded(voice) == \A o \in 0..3 : voice.envelopes[o].stage = "Ended"
Pitches == 0..(NUM_VOICES - 1)

\* C5: every left and right sample a kernel batch writes lies in [-5, +5];
\* a sum inside the range is written as it is.
C5_OutputWithinLimit ==
    /\ Len(summed_additive_outputs) = 2 * Len(audio_buffer_lefts)
    /\ Len(audio_buffer_rights) = Len(audio_buffer_lefts)
    /\ \A i \in 1..Len(audio_buffer_lefts) :
          /\ WithinLimit(audio_buffer_lefts[i])
          /\ WithinLimit(audio_buffer_rights[i])
          /\ WithinLimit(summed_additive_outputs[2 * i - 1]) =>
                audio_buffer_lefts[i] = summed_additive_outputs[2 * i - 1]
          /\ WithinLimit(summed_additive_outputs[2 * i]) =>
                audio_buffer_rights[i] = summed_additive_outputs[2 * i]

\* a batch whose sum left the range on the left channel and was written as
\* the limit of the same sign
C5_Witness ==
    \E i \in 1..Len(audio_buffer_lefts) :
        \/ /\ summed_additive_outputs[2 * i - 1] > HARD_LIMIT
           /\ audio_buffer_lefts[i] = HARD_LIMIT
        \/ /\ summed_additive_outputs[2 * i - 1] < 0 - HARD_LIMIT
           /\ audio_buffer_lefts[i] = 0 - HARD_LIMIT

\* C6: a kernel batch run while all four operator volumes are zero generates
\* no operator for any voice and writes 0 to every frame of both channels.
C6_SilentWhenVolumesZero ==
    [][(batches' > batches /\ \A o \in 0..3 : parameters.operators[o].volume = 0) =>
          /\ generated' = {}
          /\ Len(audio_buffer_lefts') > 0
          /\ AllZero(audio_buffer_lefts')
          /\ AllZero(audio_buffer_rights')
          /\ AllZero(summed_additive_outputs')]_vars

\* a batch has visited the voice of a held key with all volumes at zero
C6_Witness ==
    /\ batches > 0
    /\ \A o \in 0..3 : parameters.operators[o].volume = 0
    /\ 60 \in visited
    /\ voices[60].key_pressed
    /\ voices[60].envelopes[0].stage = "Sustain"
    /\ generated = {}
    /\ Len(audio_buffer_lefts) > 0
    /\ AllZero(audio_buffer_lefts)
    /\ AllZero(audio_buffer_rights)

\* C7: a kernel batch does not visit an inactive voice, generates no operator
\* for it and leaves its state as it was; with no active voice every frame
\* written is 0.
C7_InactiveVoiceSkipped ==
    [][batches' > batches =>
          /\ \A p \in Pitches :
                ~voices[p].active =>
                    /\ p \notin visited'
                    /\ \A o \in 0..3 : <<p, o>> \notin generated'
                    /\ voices'[p] = voices[p]
          /\ (\A p \in Pitches : ~voices[p].active) =>
                /\ Len(audio_buffer_lefts') > 0
                /\ AllZero(audio_buffer_lefts')
                /\ AllZero(audio_buffer_rights')
                /\ AllZero(summed_additive_outputs')]_vars

\* the latest batch passed over a voice that had played and was deactivated
C7_Witness ==
    /\ batches > 0
    /\ ~voices[60].active
    /\ voices[60].duration > 0
    /\ visited = {}
    /\ Len(audio_buffer_lefts) > 0
    /\ AllZero(audio_buffer_lefts)

\* C8: a step deactivates a voice only if its key is up and its four
\* envelopes are Ended; a kernel batch that leaves an active voice with its
\* key up and its four envelopes Ended deactivates it; a step that presses
\* the key of a voice leaves that voice active.
C8_VoiceLifecycle ==
    [][\A p \in Pitches :
          /\ (voices[p].active /\ ~voices'[p].active) =>
                /\ ~voices[p].key_pressed
                /\ ~voices'[p].key_pressed
                /\ AllEnded(voices'[p])
                /\ batches' > batches
          /\ (batches' > batches /\ voices[p].active
                /\ ~voices'[p].key_pressed /\ AllEnded(voices'[p])) =>
                ~voices'[p].active
          /\ (batches' = batches /\ voices'[p] # voices[p] /\ voices'[p].key_pressed) =>
                /\ voices'[p].active
                /\ \A q \in Pitches \ {p} : voices'[q] = voices[q]]_vars

\* a voice that was visited, ended and deactivated, keyed on again: its four
\* envelopes start from Ended and its phase is where the batches left it
C8_Witness ==
    /\ voices[60].active
    /\ voices[60].key_pressed
    /\ voices[60].last_phase[0] # 0
    /\ \A o \in 0..3 :
          /\ voices[60].envelopes[o].stage = "Attack"
          /\ voices[60].envelopes[o].elapsed = 0

\* C9: after any sequence of patch-bank operations the bank holds exactly
\* 128 patches, at the indices 0..127, and the current patch index is one of
\* them; so does a fresh bank that imported exported bytes.
C9_BankKeepsSizeAndIndex ==
    /\ DOMAIN patch_bank.patches = 0..(NUM_PATCHES - 1)
    /\ num_patches(patch_bank) = 128
    /\ patch_bank.patch_index \in 0..127
    /\ DOMAIN bank_2.patches = 0..(NUM_PATCHES - 1)
    /\ bank_2.patch_index \in 0..127

\* a bank of 129 patches was imported and the last patch then made current
C9_Witness ==
    /\ ops >= 2
    /\ patch_bank.patch_index = 127
    /\ patch_bank.patches[0].name = <<83>>
    /\ patch_bank.patches[127].name = <<83>>

\* C10: once a bank has been exported to bytes and the bytes imported into
\* a fresh bank, every parameter of every patch 0..127 has in the importing
\* bank exactly the value it has in the exporting bank.
C10_ExportImportReproduces ==
    \A p \in 0..127 :
        /\ Len(bank_2.patches[p].parameters) = Len(bank_1.patches[p].parameters)
        /\ \A i \in 1..NumParameters :
              bank_2.patches[p].parameters[i] = bank_1.patches[p].parameters[i]

\* the exported bank had a parameter of its last patch set by the host to a
\* value that is not the default, and the importing bank shows that value
\* there and the default in its first patch
C10_Witness ==
    /\ bank_1.patch_index = 127
    /\ bank_1.patches[127].parameters[1] = F32_ONE + 2
    /\ bank_1.patches[127].parameters[1] # PatchParameter_all[1]
    /\ bank_2.patches[127].parameters[1] = F32_ONE + 2
    /\ bank_2.patches[0].parameters[1] = PatchParameter_all[1]

\* C11: an import of bytes that cannot be deserialized, as a bank or into
\* the current patch, leaves the whole bank as it was: names, parameter
\* values, patch index, patches-changed flag and both changed-parameter
\* sets; the bank import returns an error.
C11_UndecodableImportIsNoOp ==
    [][/\ (ops' > ops /\ called'.op = "import_bank_from_bytes"
            /\ ~from_bytes(called'.args[1]).ok) =>
              /\ patch_bank' = patch_bank
              /\ called'.value = "Err"
       /\ (ops' > ops /\ called'.op = "import_bytes_into_current_patch"
            /\ ~patch_from_bytes(called'.args[1]).ok) =>
              patch_bank' = patch_bank]_vars

\* bank bytes cut short were handed to a bank with one parameter changed
\* from the GUI: the change is still pending for the audio side alone
C11_Witness ==
    /\ called.op = "import_bank_from_bytes"
    /\ called.args[1] # <<>>
    /\ called.value = "Err"
    /\ patch_bank.patches[0].parameters[1] = 3
    /\ patch_bank.parameter_change_info_audio = {0}
    /\ patch_bank.parameter_change_info_gui = {}
    /\ ~patch_bank.patches_changed

\* C12: set_parameter_text_from_host returns false and changes nothing when
\* the text does not parse or the index names no parameter; when it returns
\* true the value was set and the parameter is marked as changed for the
\* audio side and for the GUI side.
C12_TextSetAcceptedOrNoOp ==
    [][(ops' > ops /\ called'.op = "set_parameter_text_from_host") =>
          /\ (value_from_text(called'.args[2]) = None
                 \/ called'.args[1] >= num_parameters(patch_bank)) =>
                called'.value = "false"
          /\ called'.value = "false" => patch_bank' = patch_bank
          /\ called'.value = "true" =>
                /\ get_current_patch(patch_bank').parameters[called'.args[1] + 1]
                      = value_from_text(called'.args[2])[1]
                /\ called'.args[1] \in patch_bank'.parameter_change_info_audio
                /\ called'.args[1] \in patch_bank'.parameter_change_info_gui]_vars

\* the text "x" was refused for a parameter that the GUI had set before
C12_Witness ==
    /\ called.op = "set_parameter_text_from_host"
    /\ called.args = <<0, <<120>>>>
    /\ called.value = "false"
    /\ patch_bank.patches[0].parameters[1] = 3
    /\ patch_bank.parameter_change_info_audio = {0}
    /\ patch_bank.parameter_change_info_gui = {}

\* C13: whatever value the host or the GUI sets a parameter to, below 0
\* and above 1 included, every stored parameter value lies in [0, 1].
C13_StoredValueInRange ==
    \A p \in 0..(NUM_PATCHES - 1) : \A i \in 1..NumParameters :
        /\ patch_bank.patches[p].parameters[i] >= 0
        /\ patch_bank.patches[p].parameters[i] <= F32_ONE

\* C14: right after an import of patches, every parameter that the data of
\* a patch does not carry holds its default value in that patch, whatever
\* it held before the import.
C14_MissingParametersTakeDefaults ==
    called.op = "import_patches_from_serde" =>
        \A n \in 1..Len(called.args[2]) :
            (called.args[1] + n - 1 < NUM_PATCHES) =>
                \A i \in 1..NumParameters :
                    i > called.args[2][n] =>
                        patch_bank.patches[called.args[1] + n - 1].parameters[i]
                            = PatchParameter_all[i]

RenderStart(params, r, vs) ==
    [parameters |-> params, rng |-> r, voices |-> vs, lefts |-> <<>>, rights |-> <<>>]

RenderedBatch(from, done) ==
    [parameters |-> done.parameters, rng |-> done.rng, voices |-> done.voices,
     lefts |-> from.lefts \o done.lefts, rights |-> from.rights \o done.rights]

\* n batches of the kernel S, one after the other, from a kernel state on:
\* the frames they write and the state they leave
RECURSIVE Render(_, _, _)
Render(S, n, from) ==
    IF n = 0 THEN from
    ELSE Render(S, n - 1, RenderedBatch(from, process(from.parameters, from.rng, from.voices, S)))

\* C15: a batch of the 2-frame or of the 4-frame kernel writes the frames
\* that as many batches of the 1-frame kernel write from the same voices,
\* parameters and random state.
C15_KernelsEquivalent ==
    [][(batches' > batches /\ Len(audio_buffer_lefts') > 1) =>
          /\ audio_buffer_lefts' =
                Render(FallbackStd, Len(audio_buffer_lefts'),
                       RenderStart(parameters, rng, voices)).lefts
          /\ audio_buffer_rights' =
                Render(FallbackStd, Len(audio_buffer_lefts'),
                       RenderStart(parameters, rng, voices)).rights]_vars

\* the kernel that writes n frames a batch
KernelOf(n) == CHOOSE S \in Kernels : S.SAMPLES = n

AllGenerated == [o \in 0..3 |-> TRUE]

\* the operator loop of one voice's batch with the given generate flags, on
\* [summed, inputs, rng, generated]
OperatorLoop(voice, g, r, generate, S) ==
    ProcessOperators(
        [summed |-> ZeroLanes(S), inputs |-> Table([o \in 0..3 |-> ZeroLanes(S)]),
         rng |-> r, generated |-> {}, read |-> [o \in 0..3 |-> <<>>]],
        g, generate,
        Table([o \in 0..3 |->
            EnvelopeRun(voice.envelopes[o], voice.key_pressed, o, S.SAMPLES).volumes]),
        Table([o \in 0..3 |->
            Table([i \in 1..S.SAMPLES |-> voice.last_phase[o] + PHASE_STEP * i])]),
        (Mul(VOICE_VOLUME_FACTOR, g.master_volume) * voice.key_velocity) \div 127,
        S)

\* the batch of voice 60 with all four operators generated: what it sums
Unpruned(S) ==
    OperatorLoop(voices[60], GatherVoice(parameters, voices[60].lfo_phase), rng,
                 AllGenerated, S).summed

\* the operator loop of the batch of voice 60 as the kernel runs it, with
\* the operators the dependency analysis keeps
PrunedWith(g, S) ==
    OperatorLoop(
        voices[60], g, rng,
        run_operator_dependency_analysis(
            g.operator_volume, g.operator_additive, g.operator_modulation_index,
            g.operator_wave_type, g.operator_modulation_targets),
        S)

Pruned(S) == PrunedWith(GatherVoice(parameters, voices[60].lfo_phase), S)

\* C16: a batch, which generates the operators the dependency analysis
\* keeps, writes the frames that the same batch with all four operators
\* generated would write.
C16_PruningSound ==
    [][(batches' > batches /\ Filtered(voices) = {60}) =>
          \A i \in 1..Len(audio_buffer_lefts') :
              /\ audio_buffer_lefts'[i] =
                    HardLimit(Unpruned(KernelOf(Len(audio_buffer_lefts')))[(i - 1) * 2])
              /\ audio_buffer_rights'[i] =
                    HardLimit(Unpruned(KernelOf(Len(audio_buffer_lefts')))[(i - 1) * 2 + 1])]_vars

\* C17: the analysis returns an operator as not generated exactly when its
\* volume is below the zero limit, or it is one of operators 2..4 with its
\* additive factor below the zero limit and a modulation target that is
\* returned as not generated, or is white noise, or has its modulation index
\* below the zero limit. So operator 1 is generated iff its volume is not
\* below the limit.
C17_NotGeneratedIffSkippable ==
    analysis.called =>
        \A o \in 0..3 :
            ~analysis.returned[o] <=>
                \/ analysis.operator_volume[o] < ZERO_VALUE_LIMIT
                \/ /\ o >= 1
                   /\ analysis.operator_additive[o] < ZERO_VALUE_LIMIT
                   /\ \/ ~analysis.returned[analysis.operator_modulation_targets[o]]
                      \/ analysis.operator_wave_type[analysis.operator_modulation_targets[o]]
                            = "WhiteNoise"
                      \/ analysis.operator_modulation_index[analysis.operator_modulation_targets[o]]
                            < ZERO_VALUE_LIMIT

\* operator 4, a pure modulator of full volume, is dropped because its
\* target, operator 2, is white noise and generated
C17_Witness ==
    /\ analysis.called
    /\ analysis.operator_volume = [o \in 0..3 |-> UNIT]
    /\ analysis.operator_additive[3] = 0
    /\ analysis.operator_modulation_targets[3] = 1
    /\ analysis.operator_wave_type[1] = "WhiteNoise"
    /\ analysis.operator_modulation_index[1] = UNIT
    /\ analysis.returned[1]
    /\ ~analysis.returned[3]

\* C18: what the analysis returns is a fixed point of its pass, whatever the
\* modulation targets in 0..3: one more pass changes no entry; and from the
\* first loop through the three passes no entry goes from not generated back
\* to generated.
C18_ThreePassesReachFixedPoint ==
    analysis.called =>
        /\ AnalysisPass(analysis.returned,
                        operator_additive_zero(analysis.operator_volume,
                                               analysis.operator_additive),
                        operator_modulation_index_zero(analysis.operator_volume,
                                                       analysis.operator_modulation_index),
                        analysis.operator_wave_type,
                        analysis.operator_modulation_targets) = analysis.returned
        /\ analysis.passes[4] = analysis.returned
        /\ \A n \in 1..3 : \A o \in 0..3 :
              ~analysis.passes[n][o] => ~analysis.passes[n + 1][o]

\* the second pass drops an operator the first pass kept: operator 2
\* modulates operator 3, which the first pass drops after it looked at
\* operator 2
C18_Witness ==
    /\ analysis.called
    /\ analysis.operator_modulation_targets[1] = 2
    /\ analysis.passes[2][1]
    /\ ~analysis.passes[3][1]
    /\ ~analysis.returned[1]

\* C19: in a batch of a voice every operator above operator 1 sends its
\* modulation output to an operator below itself, and the modulation input of
\* every generated operator is, when the operator is processed, what it is
\* at the end of the operator loop: all that is ever added to it is there
\* before it is read.
C19_ProducersFirst ==
    [][(batches' > batches /\ Filtered(voices) = {60}) =>
          /\ \A o \in 1..3 : parameters.operators[o].output_operator < o
          /\ \A acc \in {Pruned(KernelOf(Len(audio_buffer_lefts')))} :
                /\ summed_additive_outputs' =
                      [j \in 1..(2 * Len(audio_buffer_lefts')) |-> acc.summed[j - 1]]
                /\ generated' = {<<60, o>> : o \in acc.generated}
                /\ \A o \in acc.generated : acc.read[o] = acc.inputs[o]]_vars

\* a batch in which operator 1 read a modulation input that operators 2 and
\* 4 had both added to
C19_Witness ==
    /\ batches > 0
    /\ generated = {<<60, 0>>, <<60, 1>>, <<60, 3>>}
    /\ parameters.operators[3].output_operator = 0
    /\ parameters.operators[1].output_operator = 0
    /\ parameters.operators[0].wave_type = "Sine"
    /\ \E i \in 1..Len(audio_buffer_lefts) : audio_buffer_lefts[i] # 0

\* the frames up to the position are written once each, the others not at
\* all; the slices follow one another from frame 0 on and have the length
\* of their kernel; no slice and no assertion has failed; the latest batch
\* wrote as many frames as its slice has; after the break the position is the
\* length of the buffer
Tiled ==
    /\ ~select.failed
    /\ select.position <= select.num_samples
    /\ DOMAIN select.writes = 1..select.num_samples
    /\ \A i \in 1..select.num_samples :
          select.writes[i] = (IF i <= select.position THEN 1 ELSE 0)
    /\ \A k \in 1..Len(select.slices) :
          /\ select.slices[k][1] = (IF k = 1 THEN 0 ELSE select.slices[k - 1][2])
          /\ select.slices[k][2] - select.slices[k][1] = select.slices[k][3]
    /\ select.slices # <<>> =>
          /\ select.slices[Len(select.slices)][2] = select.position
          /\ Len(audio_buffer_lefts) = select.slices[Len(select.slices)][3]
          /\ Len(audio_buffer_rights) = select.slices[Len(select.slices)][3]
    /\ ~select.running => select.position = select.num_samples

\* C20: process_f32_runtime_select comes to its break for every buffer
\* length, and on the way its kernel batches tile the buffer: every frame
\* below the position is written by one batch, slices ascending and
\* adjoining, none beyond the buffer's length, each as long as its kernel's
\* frame count.
C20_TerminatesAndTiles == []Tiled /\ <>(~select.running)

\* seven frames in an AVX build: a batch of four, of two, of one
C20_Witness ==
    /\ ~select.running
    /\ select.num_samples = 7
    /\ select.slices = <<<<0, 4, 4>>, <<4, 6, 2>>, <<6, 7, 1>>>>
    /\ \A i \in 1..7 : select.writes[i] = 1

\* C21: a batch of the render loop is 4 frames wide when at least 4 frames
\* remain and the build has the AVX kernel and AVX is detected, otherwise 2
\* frames wide when at least 2 remain and the build has the SSE2 kernel,
\* otherwise 1 frame wide; it is never wider than the frames that remain.
C21_WidestThatFits ==
    [][Len(select'.slices) > Len(select.slices) =>
          \A width \in {select'.slices[Len(select'.slices)][3]} :
              /\ select'.position - select.position = width
              /\ width <= select.num_samples - select.position
              /\ width =
                    (IF /\ select.num_samples - select.position >= 4
                        /\ select.build.simd
                        /\ select.build.avx
                     THEN 4
                     ELSE IF select.num_samples - select.position >= 2 /\ select.build.simd
                     THEN 2
                     ELSE 1)]_vars

\* six frames with AVX: a batch of four, then one of two; and five frames
\* in a build with SSE2 alone: two, two, one
C21_Witness ==
    /\ ~select.running
    /\ \/ /\ select.build.avx
          /\ select.slices = <<<<0, 4, 4>>, <<4, 6, 2>>>>
       \/ /\ select.build.simd
          /\ ~select.build.avx
          /\ select.slices = <<<<0, 2, 2>>, <<2, 4, 2>>, <<4, 5, 1>>>>

\* C22: all batches of one call of process_f32_runtime_select come from the
\* same kernel variant: they all have the frame count of the first.
C22_OneKernelPerBuffer ==
    \A k \in 1..Len(select.slices) : select.slices[k][3] = select.slices[1][3]

\* C23: every mask of 1, 2 or 3 flags is in the table of its permutations
\* exactly once, and so is the default of its type: a storage that is looked
\* up is found at one place of the table, and the default at some place.
C23_EachMaskOnce ==
    mod_target.looked_up =>
        /\ Cardinality(mod_target.positions) = 1
        /\ PositionsOf(ModTargetStorage_default(mod_target.N)) # {}
        /\ Len(permutations(mod_target.N)) = 2^mod_target.N

\* C24: with an LFO addition, get_value_with_lfo_addition returns the
\* current value times 2^addition for the master volume and the operator
\* volume, and for every other kind the processing value of the sync value
\* plus the addition, clamped to 0..1; with no LFO addition it returns the
\* current value.
C24_LfoAdditionByKind ==
    lfo_call.kind # "" /\ lfo_call.called =>
        IF lfo_call.lfo_addition = None
        THEN lfo_call.returned = lfo_call.before
        ELSE IF lfo_call.kind \in {"MasterVolume", "OperatorVolume"}
        THEN lfo_call.returned = Mul(lfo_call.before, Pow2(lfo_call.lfo_addition[1]))
        ELSE lfo_call.returned =
                 from_sync(lfo_call.kind,
                           AddedInSync(IF lfo_call.kind = "Simple"
                                       THEN lfo_call.parameter.sync_cache
                                       ELSE to_sync(lfo_call.kind, lfo_call.before),
                                       lfo_call.lfo_addition[1]))

\* C25: set_parameter_from_host with the index of a parameter marks it as
\* changed for the audio side and for the GUI side; set_parameter_from_gui
\* marks it for the audio side and leaves the GUI side's set as it was; with
\* an index that names no parameter either call marks nothing and changes
\* no value.
C25_MarksPerSide ==
    [][/\ \A index \in ParameterIndices, value \in HostValues :
             SetParameterFromHost(index, value) =>
                 IF index < num_parameters(patch_bank)
                 THEN /\ index \in patch_bank'.parameter_change_info_audio
                      /\ index \in patch_bank'.parameter_change_info_gui
                 ELSE patch_bank' = patch_bank
       /\ \A index \in ParameterIndices, value \in GuiValues :
             SetParameterFromGui(index, value) =>
                 IF index < num_parameters(patch_bank)
                 THEN /\ index \in patch_bank'.parameter_change_info_audio
                      /\ patch_bank'.parameter_change_info_gui
                            = patch_bank.parameter_change_info_gui
                 ELSE patch_bank' = patch_bank]_vars

\* the GUI has set parameter 0 and the host parameter 1
C25_Witness ==
    /\ ops = 2
    /\ patch_bank.parameter_change_info_audio = {0, 1}
    /\ patch_bank.parameter_change_info_gui = {1}
    /\ get_current_patch(patch_bank).parameters[1] = 3
    /\ get_current_patch(patch_bank).parameters[2] = F32_ONE + 2

\* a set that returned and was not yet reported has its bit pending, in the
\* bit set or in the hands of a read under way
UpdatePending ==
    \A i \in SyncIndices :
        sync.returned[i] > sync.reported[i] =>
            \/ i \in sync.changed_audio
            \/ sync.audio.pc = "taken" /\ i \in sync.audio.bits

\* C26: no parameter update is lost between the threads: a set that has
\* returned is either reported already (by a read that completed during
\* the set) or its bit is pending, so that the first read starting after the
\* return reports the parameter with the value set or a newer one; and a
\* read that took a parameter's bit reports a value no older than the write
\* that marked it.
C26_NoUpdateLost ==
    /\ [](sync.writes > 0 => UpdatePending)
    /\ [][(sync.writes > 0 /\ sync.audio.pc = "taken" /\ sync'.audio.pc = "idle") =>
             \A i \in SyncIndices :
                 /\ i \in sync.audio.bits =>
                       /\ sync'.report[1][i] # None
                       /\ sync'.report[1][i][1] >= sync.audio.marked[i]
                 /\ sync.audio.returned[i] > sync.reported[i] =>
                       /\ sync'.report[1][i] # None
                       /\ sync'.report[1][i][1] >= sync.audio.returned[i]]_vars

\* a read that took the bit of parameter 0 between the marking for the audio
\* side and the return of the second set of it, and reported the value 2
C26_Witness ==
    /\ sync.writes = 2
    /\ sync.host.pc = Len(set_parameter_from_host_steps)
    /\ sync.host.index = 0
    /\ sync.returned[0] = 1
    /\ sync.audio.pc = "idle"
    /\ sync.report # None
    /\ sync.report[1][0] = Some(2)

\* C27: have_patches_changed tests and clears the flag in one step: it
\* returns true exactly when a patch change stored the flag since the
\* previous call, so that a second call without a change in between returns
\* false; a change that stored the flag stays pending until a call reports
\* it; and the calls that store the flag are exactly the patch changes.
C27_TestAndClear ==
    /\ []("changer" \in DOMAIN flag_sync /\ flag_sync.pending => patch_bank.patches_changed)
    /\ [][("changer" \in DOMAIN flag_sync /\ flag_sync'.calls > flag_sync.calls) =>
             /\ flag_sync'.returned = Some(flag_sync.pending)
             /\ ~patch_bank'.patches_changed]_vars
    /\ []("changer" \in DOMAIN flag_sync /\ flag_sync.done # None =>
             flag_sync.done[1].stored = flag_sync.done[1].change)

\* a rename was reported by a first call, and a second call after it
\* returned false
C27_Witness ==
    /\ "changer" \in DOMAIN flag_sync
    /\ flag_sync.calls = 2
    /\ flag_sync.returned = Some(FALSE)
    /\ flag_sync.done # None
    /\ flag_sync.done[1].call.op = "set_patch_name"
    /\ ops = 1
    /\ ~patch_bank.patches_changed

\* C30: can_be_automated(index) is true for every index of an existing
\* parameter and false for every other index, as get_parameter_name returns
\* a name that is not empty for exactly the existing indices.
C30_AutomatedIffExists ==
    ("changer" \in DOMAIN flag_sync /\ flag_sync.query # None) =>
        /\ flag_sync.query[1].can_be_automated
              = (0 <= flag_sync.query[1].index
                    /\ flag_sync.query[1].index < flag_sync.query[1].num_parameters)
        /\ flag_sync.query[1].can_be_automated = (flag_sync.query[1].name # <<>>)

\* events of the queue or of the dispatch log that share a frame stand in
\* the order of their ids, which is the order of their enqueueing
InEnqueueOrder ==
    /\ \A i, j \in 1..Len(pending_midi_events) :
           (i < j /\ pending_midi_events[i].delta_frames = pending_midi_events[j].delta_frames)
               => pending_midi_events[i].id < pending_midi_events[j].id
    /\ \A i, j \in 1..Len(dispatched) :
           (i < j /\ dispatched[i][2] = dispatched[j][2])
               => dispatched[i][1] < dispatched[j][1]

\* the events a ProcessSample step dispatches
DispatchedBy(before, after) ==
    {e \in at_buffer_start :
        \E k \in (Len(before) + 1)..Len(after) : after[k][1] = e.id}

\* C28: events of equal delta_frames are dispatched in the order of their
\* enqueueing, within one enqueue_midi_events call and across calls; and when
\* a sample dispatches a note-on and then, as the last event for that pitch,
\* a note-off of the same pitch, the key is left released.
C28_SameFrameInEnqueueOrder ==
    /\ []InEnqueueOrder
    /\ [][(buffer_offset' = buffer_offset + 1 /\ ~panicked') =>
             \A e_on, e_off \in DispatchedBy(dispatched, dispatched') :
                 (/\ e_on.data = NOTE_ON_60
                  /\ e_off.data = NOTE_OFF_60
                  /\ e_on.id < e_off.id
                  /\ \A e \in DispatchedBy(dispatched, dispatched') :
                         e.data[2] = 60 => e.id <= e_off.id)
                     => ~voices'[60].key_pressed]_vars

\* a note-on 60 and a later enqueued note-off 60 of frame 0 were dispatched
\* at sample 0 in that order, and the key is released
C28_Witness ==
    /\ rendering
    /\ dispatched = <<<<1, 0>>, <<2, 0>>>>
    /\ \E e_on, e_off \in at_buffer_start :
          /\ e_on.id = 1 /\ e_on.data = NOTE_ON_60
          /\ e_off.id = 2 /\ e_off.data = NOTE_OFF_60
    /\ ~voices[60].key_pressed
    /\ voices[60].active

\* C29: the gains read for a voice are calculate_left_and_right of the
\* panning gathered for that voice in that batch, the base panning plus the
\* voice's own LFO addition if it has one: the LFO addition of one voice
\* does not reach the gains of a voice without one.
C29_GainsOfTheVoice ==
    pan_batch.phase # "" =>
        \A k \in 1..Len(pan_batch.gathered) :
            pan_batch.gathered[k].left_and_right
                = calculate_left_and_right(pan_batch.gathered[k].operator_panning)

====
